---- MODULE Spec2Model ----
(***************************************************************************)
(* Model of etternabot's score-screenshot identification:                  *)
(*   - OcrScoreCardManager (src/discord_handler/mod.rs), the list of       *)
(*     candidates and the reaction protocol that reveals a score card;     *)
(*   - State::check_potential_score_screenshot, which picks the recent     *)
(*     score that matches the recognized screenshot best;                  *)
(*   - EvaluationScreenData's equality score (score_ocr/mod.rs).           *)
(***************************************************************************)
EXTENDS Integers, Sequences, FiniteSets, TLC

----------------------------------------------------------------------------
(* Option<T>: None is the empty sequence, Some(x) the one-element sequence. *)

None == << >>

Some(x) == << x >>

IsSome(o) == o # None

Unwrap(o) == o[1]

----------------------------------------------------------------------------
(* Bounds of the model.                                                     *)

\* longest candidate list explored (OcrScoreCardManager::candidates is unbounded)
MaxCandidates == 2

\* the ids the model draws messages, Discord users, scorekeys and EO users from
MessageIds == {1, 2}

DiscordUsers == {1, 2, 3}

Scorekeys == {"Sa", "Sb"}

EoUserIds == {11}

Reactions == [message_id : MessageIds, user_id : DiscordUsers]

----------------------------------------------------------------------------
VARIABLES
  candidates,   \* OcrScoreCardManager::candidates, a Vec<Candidate>
  ret,          \* what the latest add_reaction call returned
  delivered,    \* history: per message, the users whose reactions add_reaction
                \* was called with while the message had a candidate
  reveals,      \* history: per message, how many add_reaction calls returned Some
  ignored,      \* history: the latest add_reaction call found no candidate
  this,         \* `self` of an equality score: an EvaluationScreenData
  other,        \* `other` of an equality score: an EvaluationScreenData
  score,        \* the latest equality scores, Some(<<this vs other, other vs this>>)
  edits,        \* how many field assignments built this and other
  msg,          \* the message check_potential_score_screenshot is handling
  recognized,   \* its local `recognized`: one EvaluationScreenData per theme
  user_id,      \* its local `user_id`
  recent_scores,\* its local `recent_scores.scores`
  scorekey,     \* its local `scorekey`
  returned_at,  \* the statement it returned at ("idle" outside the handler)
  result,       \* the Result it returned: "Ok" or "Err"
  magnified,    \* the messages the bot reacted to with the magnifier
  handled,      \* how many messages were handled
  message_returned, \* what State::message returned for the latest message:
                \* None while it runs, else Some of its Result and of whether
                \* it came to the score links, the song links and the command
  eo_score,     \* what the EO API answers to score_data: Some(ScoreData) or None
  card_info,    \* the ScoreCard a score card handler was called with
  replay_analysis,  \* the handler's local `replay_analysis`
  zero_mean_replay, \* the derived replay adjust_offset returned to it
  embed,        \* the embed the handler handed to the send call
  card_fn,      \* the handler that ran: "send_score_card" or "State::score_card"
  card_at,      \* the statement the handler returned at ("idle" before the call)
  card_result,  \* the Result it returned: "Ok" or "Err"
  nps_seconds,  \* the seconds a tap speed function is given
  nps_replay,   \* the replay a tap speed function is given
  nps_fn,       \* the tap speed function that was called ("idle" before)
  nps_window,   \* the window_size it was called with
  nps_result,   \* what it returned
  judge_string, \* the string extract_judge_from_string is given
  judge_found,  \* what extract_judge_from_string returned for it
  hand_replay,  \* the replay a hand balance function is given
  hand_fn,      \* the hand balance function that was called ("idle" before)
  hand_note,    \* the index of the note replay_note_wife_points was given
  hand_result,  \* what it returned
  bot_reactions,    \* history: the messages reaction_add got a reaction of the
                \* bot itself for
  card_attempts,    \* history: per message, how often reaction_add went on to
                \* show its score card
  card_failed,  \* history: the messages for which that failed
  reaction_result,  \* the Result the latest reaction_add returned
  pattern_input,    \* the string parse_pattern was called with, as the list
                \* of its characters (each one its UTF-8 bytes)
  pattern_string,   \* its `string`: the bytes not yet popped
  pattern_rows, \* its `rows`
  pattern_at    \* where it is: "idle", in the "loop", returned "Ok" or "Err",
                \* or in a "panic"

trackerVars == << candidates, ret, delivered, reveals, ignored >>

eqVars == << this, other, score, edits >>

localVars == << msg, recognized, user_id, recent_scores, scorekey, returned_at, result >>

ocrVars == << msg, recognized, user_id, recent_scores, scorekey, returned_at, result,
              magnified, handled, message_returned >>

cardVars == << eo_score, card_info, replay_analysis, zero_mean_replay, embed,
               card_fn, card_at, card_result >>

\* everything outside the tracker, the equality score and the screenshot handler
npsVars == << nps_seconds, nps_replay, nps_fn, nps_window, nps_result >>

judgeVars == << judge_string, judge_found >>

handVars == << hand_replay, hand_fn, hand_note, hand_result >>

reactVars == << bot_reactions, card_attempts, card_failed, reaction_result >>

patternVars == << pattern_input, pattern_string, pattern_rows, pattern_at >>

lateVars == << handVars, reactVars, patternVars >>

restVars == << cardVars, npsVars, judgeVars, lateVars >>

vars == << candidates, ret, delivered, reveals, ignored, this, other, score, edits,
           msg, recognized, user_id, recent_scores, scorekey, returned_at, result,
           magnified, handled, message_returned, restVars >>

----------------------------------------------------------------------------
(* score_ocr: EvaluationScreenData and its equality score                   *)

\* An f32 is a number of thousandths, or a non-finite value: NaN and the
\* infinities alike make `(a - b).abs() <= 0.01` false against every value.
F32(milli) == [ finite |-> TRUE, milli |-> milli ]

NaN == [ finite |-> FALSE, milli |-> 0 ]

\* the 0.01 of the @float arm, in thousandths
FloatTolerance == 10

\* struct Rate { x20: u32 }
Rate(x20) == [ x20 |-> x20 ]

\* struct Judgements
Judgements(marvelouses, perfects, greats, goods, bads, misses) ==
  [ marvelouses |-> marvelouses, perfects |-> perfects, greats |-> greats,
    goods |-> goods, bads |-> bads, misses |-> misses ]

\* the fields of struct EvaluationScreenData, in declaration order
Fields ==
  << "rate", "pack", "eo_username", "song", "artist",
     "wifescore", "msd", "ssr", "judgements", "difficulty" >>

FieldNames == { Fields[i] : i \in 1..Len(Fields) }

\* #[derive(Default)]: every field None
Default == [ f \in FieldNames |-> None ]

\* |a: &f32, b: &f32| (a - b).abs() <= 0.01, without the abs()
float_eq_signed(a, b) ==
  /\ a.finite /\ b.finite
  /\ a.milli - b.milli <= FloatTolerance

\* |a: &f32, b: &f32| (a - b).abs() <= 0.01
float_eq(a, b) ==
  /\ a.finite /\ b.finite
  /\ (IF a.milli >= b.milli THEN a.milli - b.milli ELSE b.milli - a.milli) <= FloatTolerance

\* compare! with the commented-out `score -= $weight` of a mismatch in force
compare_penalty(a, b, weight) ==
  IF IsSome(a) /\ IsSome(b)
  THEN IF Unwrap(a) = Unwrap(b) THEN weight ELSE 0 - weight
  ELSE 0

\* compare!($a, $b, $weight): what the arm adds to score, with |a, b| a == b
compare(a, b, weight) ==
  IF IsSome(a) /\ IsSome(b)
  THEN IF Unwrap(a) = Unwrap(b) THEN weight ELSE 0
  ELSE 0

\* compare!($a, $b, $weight, @float): what the arm adds to score
compare_float(a, b, weight) ==
  IF IsSome(a) /\ IsSome(b)
  THEN IF float_eq(Unwrap(a), Unwrap(b)) THEN weight ELSE 0
  ELSE 0

\* self.judgements.as_ref().map(|j| j.<count>)
judgement_count(judgements, count) ==
  IF IsSome(judgements) THEN Some(Unwrap(judgements)[count]) ELSE None

\* the equality score with the comparison of the artists left out
equality_score_no_artist(self, that) ==
    compare(self.rate, that.rate, 2)
  + compare(self.pack, that.pack, 3)
  + compare(self.eo_username, that.eo_username, 5)
  + compare(self.song, that.song, 6)
  + compare_float(self.wifescore, that.wifescore, 5)
  + compare_float(self.msd, that.msd, 6)
  + compare_float(self.ssr, that.ssr, 6)
  + compare(self.difficulty, that.difficulty, 2)
  + compare(judgement_count(self.judgements, "marvelouses"),
            judgement_count(that.judgements, "marvelouses"), 2)
  + compare(judgement_count(self.judgements, "perfects"),
            judgement_count(that.judgements, "perfects"), 2)
  + compare(judgement_count(self.judgements, "greats"),
            judgement_count(that.judgements, "greats"), 2)
  + compare(judgement_count(self.judgements, "goods"),
            judgement_count(that.judgements, "goods"), 2)
  + compare(judgement_count(self.judgements, "bads"),
            judgement_count(that.judgements, "bads"), 2)
  + compare(judgement_count(self.judgements, "misses"),
            judgement_count(that.judgements, "misses"), 2)

\* the `score` that probably_equals accumulates: `let mut score: i32 = 0`
\* followed by the fifteen compare! invocations, in their order
equality_score(self, that) ==
    compare(self.rate, that.rate, 2)
  + compare(self.pack, that.pack, 3)
  + compare(self.eo_username, that.eo_username, 5)
  + compare(self.song, that.song, 6)
  + compare(self.artist, that.artist, 3)
  + compare_float(self.wifescore, that.wifescore, 5)
  + compare_float(self.msd, that.msd, 6)
  + compare_float(self.ssr, that.ssr, 6)
  + compare(self.difficulty, that.difficulty, 2)
  + compare(judgement_count(self.judgements, "marvelouses"),
            judgement_count(that.judgements, "marvelouses"), 2)
  + compare(judgement_count(self.judgements, "perfects"),
            judgement_count(that.judgements, "perfects"), 2)
  + compare(judgement_count(self.judgements, "greats"),
            judgement_count(that.judgements, "greats"), 2)
  + compare(judgement_count(self.judgements, "goods"),
            judgement_count(that.judgements, "goods"), 2)
  + compare(judgement_count(self.judgements, "bads"),
            judgement_count(that.judgements, "bads"), 2)
  + compare(judgement_count(self.judgements, "misses"),
            judgement_count(that.judgements, "misses"), 2)

\* The values the model draws each field from. The floats lie 0.005 and 0.025
\* apart, away from the 0.01 boundary where f32 rounding decides.
JudgementSamples ==
  { Judgements(100, 20, 3, 0, 0, 1),
    Judgements(100, 20, 3, 0, 0, 2),
    Judgements(90, 25, 4, 1, 1, 5) }

FloatSamples == { F32(96495), F32(96500), F32(96520), NaN }

FieldValues(f) ==
  CASE f = "rate"        -> { Rate(20), Rate(23) }
    [] f = "pack"        -> { "Pack A", "Pack B" }
    [] f = "eo_username" -> { "bob", "ghost" }
    [] f = "song"        -> { "Game Time", "Other Song" }
    [] f = "artist"      -> { "Artist A", "Artist B" }
    [] f = "wifescore"   -> FloatSamples
    [] f = "msd"         -> FloatSamples
    [] f = "ssr"         -> FloatSamples
    [] f = "judgements"  -> JudgementSamples
    [] f = "difficulty"  -> { "Hard", "Challenge" }

\* a screen with every field recognized
FullScreen ==
  [ rate |-> Some(Rate(20)), pack |-> Some("Pack A"), eo_username |-> Some("bob"),
    song |-> Some("Game Time"), artist |-> Some("Artist A"),
    wifescore |-> Some(F32(96500)), msd |-> Some(F32(96495)), ssr |-> Some(F32(96520)),
    judgements |-> Some(Judgements(100, 20, 3, 0, 0, 1)),
    difficulty |-> Some("Hard") ]

\* how many field assignments the model makes to the two screens
MaxEdits == 2

\* assignment of one field of `self`
set_this(f, v) ==
  /\ edits < MaxEdits
  /\ this[f] # v
  /\ this' = [ this EXCEPT ![f] = v ]
  /\ edits' = edits + 1
  /\ score' = None
  /\ UNCHANGED other
  /\ UNCHANGED trackerVars
  /\ UNCHANGED ocrVars
  /\ UNCHANGED restVars

\* assignment of one field of `other`
set_other(f, v) ==
  /\ edits < MaxEdits
  /\ other[f] # v
  /\ other' = [ other EXCEPT ![f] = v ]
  /\ edits' = edits + 1
  /\ score' = None
  /\ UNCHANGED this
  /\ UNCHANGED trackerVars
  /\ UNCHANGED ocrVars
  /\ UNCHANGED restVars

\* this.equality_score(&other) and other.equality_score(&this)
call_equality_score ==
  /\ score = None
  /\ score' = Some(<< equality_score(this, other), equality_score(other, this) >>)
  /\ UNCHANGED << this, other, edits >>
  /\ UNCHANGED trackerVars
  /\ UNCHANGED ocrVars
  /\ UNCHANGED restVars

----------------------------------------------------------------------------
(* OcrScoreCardManager                                                      *)

\* a candidate that starts with its author among the reactors
candidate_with_author(message_id, author_id, key, uid) ==
  [ message_id |-> message_id, author_id |-> author_id,
    scorekey |-> key, user_id |-> uid,
    reactors |-> { author_id }, score_card_has_been_printed |-> FALSE ]

\* struct Candidate, as add_candidate builds it
Candidate(message_id, author_id, key, uid) ==
  [ message_id |-> message_id, author_id |-> author_id,
    scorekey |-> key, user_id |-> uid,
    reactors |-> {}, score_card_has_been_printed |-> FALSE ]

\* the first index is returned even when no candidate has the message id
find_candidate_or_first(cands, message_id) ==
  LET hits == { i \in 1..Len(cands) : cands[i].message_id = message_id }
  IN  IF hits = {} THEN (IF Len(cands) = 0 THEN 0 ELSE 1)
      ELSE CHOOSE i \in hits : \A j \in hits : i <= j

\* self.candidates.iter_mut().find(|c| c.message_id == reaction.message_id):
\* the index of the first candidate of the message, 0 if there is none
find_candidate(cands, message_id) ==
  LET hits == { i \in 1..Len(cands) : cands[i].message_id = message_id }
  IN  IF hits = {} THEN 0 ELSE CHOOSE i \in hits : \A j \in hits : i <= j

\* the printed flag counted only while no score card of the message failed
already_printed_unless_failed(candidate) ==
  /\ candidate.score_card_has_been_printed
  /\ candidate.message_id \notin card_failed

\* the check of the printed flag left out
already_printed_never(candidate) == FALSE

\* if candidate.score_card_has_been_printed { return None; }
already_printed(candidate) == candidate.score_card_has_been_printed

\* candidate.reactors.insert(reaction.user_id), on a HashSet
insert_reactor(candidate, reactor) ==
  [ candidate EXCEPT !.reactors = @ \cup {reactor} ]

\* `||` in place of `&&`
reveal_condition_either(candidate) ==
  \/ candidate.author_id \in candidate.reactors
  \/ Cardinality(candidate.reactors) >= 2

\* candidate.reactors.contains(&candidate.author_id) && candidate.reactors.len() >= 2
reveal_condition(candidate) ==
  /\ candidate.author_id \in candidate.reactors
  /\ Cardinality(candidate.reactors) >= 2

\* the assignment of the printed flag left out
mark_printed_forgotten(candidate) == candidate

\* candidate.score_card_has_been_printed = true
mark_printed(candidate) ==
  [ candidate EXCEPT !.score_card_has_been_printed = TRUE ]

\* OcrScoreCardManager::new
manager_new == << >>

\* a manager that keeps the latest candidate only
push_candidate_evicting(cands, message_id, author_id, key, uid) ==
  << Candidate(message_id, author_id, key, uid) >>

\* self.candidates.push(Candidate { .. })
push_candidate(cands, message_id, author_id, key, uid) ==
  Append(cands, Candidate(message_id, author_id, key, uid))

add_candidate(message_id, author_id, key, uid) ==
  /\ Len(candidates) < MaxCandidates
  /\ candidates' = push_candidate(candidates, message_id, author_id, key, uid)
  /\ UNCHANGED << ret, delivered, reveals, ignored >>
  /\ UNCHANGED eqVars
  /\ UNCHANGED ocrVars
  /\ UNCHANGED restVars

\* OcrScoreCardManager::add_reaction, what it does to the manager
manager_add_reaction(reaction) ==
  LET i == find_candidate(candidates, reaction.message_id) IN
  /\ ignored' = (i = 0)
  /\ IF i = 0
     THEN \* the `?` on find: a reaction on a non-candidate message
          /\ ret' = None
          /\ UNCHANGED << candidates, delivered, reveals >>
     ELSE
       /\ delivered' = [ delivered EXCEPT ![reaction.message_id] = @ \cup {reaction.user_id} ]
       /\ IF already_printed(candidates[i])
          THEN /\ ret' = None
               /\ UNCHANGED << candidates, reveals >>
          ELSE LET c == insert_reactor(candidates[i], reaction.user_id) IN
               IF reveal_condition(c)
               THEN /\ candidates' = [ candidates EXCEPT ![i] = mark_printed(c) ]
                    /\ ret' = Some(<< c.scorekey, c.user_id >>)
                    /\ reveals' = [ reveals EXCEPT ![reaction.message_id] = @ + 1 ]
               ELSE /\ candidates' = [ candidates EXCEPT ![i] = c ]
                    /\ ret' = None
                    /\ UNCHANGED reveals

\* OcrScoreCardManager::add_reaction called on its own
add_reaction(reaction) ==
  /\ manager_add_reaction(reaction)
  /\ UNCHANGED eqVars
  /\ UNCHANGED ocrVars
  /\ UNCHANGED restVars

----------------------------------------------------------------------------
(* State::check_potential_score_screenshot                                  *)

\* score_ocr::MINIMUM_EQUALITY_SCORE_TO_BE_PROBABLY_EQUAL
MINIMUM_EQUALITY_SCORE_TO_BE_PROBABLY_EQUAL == 8

\* i32::MIN
I32_MIN == 0 - 2147483647 - 1

\* how many themes a screenshot is recognized in, and how many recent scores
\* user_scores returns (the code asks for 0..50)
MaxThemes == 2

MaxScores == 2

\* how many messages the handler is run on
MaxMessages == 1

\* a score of user_scores: the fields score_as_eval is built from
RecentScore(key, song_name, rate, wifescore, judgements, ssr) ==
  [ scorekey |-> key, song_name |-> song_name, rate |-> rate,
    wifescore |-> wifescore, judgements |-> judgements, ssr |-> ssr ]

\* let score_as_eval = score_ocr::EvaluationScreenData { .. }; its `date` is
\* no field of the struct in score_ocr/mod.rs and takes no part in the score
score_as_eval(s) ==
  [ artist |-> None,
    eo_username |-> None,
    judgements |-> Some(s.judgements),
    song |-> Some(s.song_name),
    msd |-> None,
    ssr |-> s.ssr,
    pack |-> None,
    rate |-> Some(s.rate),
    wifescore |-> Some(s.wifescore),
    difficulty |-> None ]

\* the loop over the themes: best_equality_score starts at 0 and is replaced by
\* every equality score greater than it (best_theme_i is only printed)
RECURSIVE theme_loop(_, _, _, _)
theme_loop(themes, eval, theme_i, best_equality_score) ==
  IF theme_i > Len(themes) THEN best_equality_score
  ELSE LET equality_score_i == equality_score(themes[theme_i], eval) IN
       theme_loop(themes, eval, theme_i + 1,
                  IF equality_score_i > best_equality_score
                  THEN equality_score_i ELSE best_equality_score)

\* `>=` in place of the first `>`
is_better_match_inclusive(es, best_equality_score_so_far) ==
  /\ es >= MINIMUM_EQUALITY_SCORE_TO_BE_PROBABLY_EQUAL
  /\ es > best_equality_score_so_far

\* `>=` in place of the second `>`
is_better_match_or_tie(es, best_equality_score_so_far) ==
  /\ es > MINIMUM_EQUALITY_SCORE_TO_BE_PROBABLY_EQUAL
  /\ es >= best_equality_score_so_far

\* equality_score > score_ocr::MINIMUM_EQUALITY_SCORE_TO_BE_PROBABLY_EQUAL
\*   && equality_score > best_equality_score_so_far
is_better_match(es, best_equality_score_so_far) ==
  /\ es > MINIMUM_EQUALITY_SCORE_TO_BE_PROBABLY_EQUAL
  /\ es > best_equality_score_so_far

\* the loop over recent_scores.scores
RECURSIVE score_loop(_, _, _, _, _)
score_loop(themes, scores, i, best_equality_score_so_far, key) ==
  IF i > Len(scores) THEN key
  ELSE LET es == theme_loop(themes, score_as_eval(scores[i]), 1, 0) IN
       IF is_better_match(es, best_equality_score_so_far)
       THEN score_loop(themes, scores, i + 1, es, Some(scores[i].scorekey))
       ELSE score_loop(themes, scores, i + 1, best_equality_score_so_far, key)

\* the most recent score as the scorekey to start from
initial_scorekey_latest(scores) ==
  IF scores = << >> THEN None ELSE Some(scores[1].scorekey)

\* let mut scorekey = None
initial_scorekey(scores) == None

\* the latest recent score taken without any comparison
select_scorekey_latest(themes, scores) ==
  IF scores = << >> THEN None ELSE Some(scores[1].scorekey)

\* let mut best_equality_score_so_far = i32::MIN; let mut scorekey = None;
\* for score in recent_scores.scores { .. }
select_scorekey(themes, scores) ==
  score_loop(themes, scores, 1, I32_MIN, initial_scorekey(scores))

\* recognized.iter().filter_map(|r| r.eo_username.as_ref()).next()
recognized_eo_username(themes) ==
  LET named == { i \in 1..Len(themes) : IsSome(themes[i].eo_username) }
  IN  IF named = {} THEN None
      ELSE themes[CHOOSE i \in named : \A j \in named : i <= j].eo_username

\* self.web_session.user_details(name): the user id of an EtternaOnline user,
\* None for eo::Error::UserNotFound
user_details(name) ==
  CASE name = "alice" -> Some(11)
    [] name = "bob"   -> Some(12)
    [] OTHER          -> None

\* let user_id = match recognized_eo_username { .. }: None where the `?` on
\* the poster's user_details returns the error
resolve_user_id(themes, poster_eo_username) ==
  LET eo_username == recognized_eo_username(themes) IN
  IF IsSome(eo_username) /\ IsSome(user_details(Unwrap(eo_username)))
  THEN user_details(Unwrap(eo_username))
  ELSE user_details(poster_eo_username)

\* What the model draws the handler's inputs from.
ThemeSamples ==
  { [ Default EXCEPT !.song = Some("Game Time"), !.rate = Some(Rate(20)),
                     !.pack = Some("Pack A") ],
    [ Default EXCEPT !.song = Some("Game Time"), !.wifescore = Some(F32(96500)),
                     !.eo_username = Some("bob") ],
    [ Default EXCEPT !.judgements = Some(Judgements(90, 25, 4, 1, 1, 5)),
                     !.eo_username = Some("ghost") ] }

ScoreSamples ==
  { RecentScore("Sa", "Game Time", Rate(20), F32(96495), Judgements(100, 20, 3, 0, 0, 1), None),
    RecentScore("Sb", "Game Time", Rate(20), F32(96495), Judgements(100, 20, 3, 0, 0, 1), None),
    RecentScore("Sc", "Other Song", Rate(23), F32(80000), Judgements(90, 25, 4, 1, 1, 5),
                Some(F32(96520))),
    RecentScore("Sd", "Game Time", Rate(20), F32(80000), Judgements(100, 20, 3, 0, 0, 2),
                Some(F32(21000))) }

Lists(S, n) == UNION { [ 1..k -> S ] : k \in 0..n }

ThemeLists == Lists(ThemeSamples, MaxThemes)

\* the scores of a user have distinct scorekeys
ScoreLists ==
  { l \in Lists(ScoreSamples, MaxScores) :
      \A i, j \in 1..Len(l) : l[i].scorekey = l[j].scorekey => i = j }

\* the saved or derived EtternaOnline usernames of the posters
PosterNames == { "alice", "nobody" }

\* msg.author.id: the model's message m is posted by user m
author_of(message_id) == message_id

Messages ==
  { m \in [ id : MessageIds, author : DiscordUsers,
            in_score_channel : BOOLEAN, has_image : BOOLEAN, lacks_ocr_role : BOOLEAN ] :
      m.author = author_of(m.id) }

\* the handler returns res at statement `at`, its locals as given
returns(at, res, themes, uid, scores, key) ==
  /\ returned_at' = at /\ result' = res
  /\ recognized' = themes /\ user_id' = uid
  /\ recent_scores' = scores /\ scorekey' = key

check_potential_score_screenshot(m) ==
  /\ returned_at = "idle"
  /\ handled < MaxMessages
  /\ handled' = handled + 1
  /\ msg' = Some(m)
  /\ message_returned' = None
  /\ UNCHANGED << ret, delivered, reveals, ignored >>
  /\ UNCHANGED eqVars
  /\ UNCHANGED restVars
  /\ \/ \* msg.channel_id.0 != self.config.score_channel
        /\ ~ m.in_score_channel
        /\ returns("channel", "Ok", << >>, None, << >>, None)
        /\ UNCHANGED << candidates, magnified >>
     \/ \* non-image post in score channel
        /\ m.in_score_channel /\ ~ m.has_image
        /\ returns("attachment", "Ok", << >>, None, << >>, None)
        /\ UNCHANGED << candidates, magnified >>
     \/ \* sent in EO by a user without the role of the score OCR feature
        /\ m.in_score_channel /\ m.has_image /\ m.lacks_ocr_role
        /\ returns("role", "Ok", << >>, None, << >>, None)
        /\ UNCHANGED << candidates, magnified >>
     \/ /\ m.in_score_channel /\ m.has_image /\ ~ m.lacks_ocr_role
        /\ \/ \* attachment.download()?
              /\ returns("download", "Err", << >>, None, << >>, None)
              /\ UNCHANGED << candidates, magnified >>
           \/ \* recognize_from_image_bytes(&bytes)?: TesseractInit, CouldNotReadImage
              /\ \E at \in { "tesseract_init", "read_image" } :
                   returns(at, "Err", << >>, None, << >>, None)
              /\ UNCHANGED << candidates, magnified >>
           \/ \E themes \in ThemeLists :
                \/ \* self.get_eo_username(&ctx, &msg)?
                   /\ returns("get_eo_username", "Err", themes, None, << >>, None)
                   /\ UNCHANGED << candidates, magnified >>
                \/ \* user_details: an error other than UserNotFound
                   /\ returns("user_details", "Err", themes, None, << >>, None)
                   /\ UNCHANGED << candidates, magnified >>
                \/ \E poster_eo_username \in PosterNames :
                     LET uid == resolve_user_id(themes, poster_eo_username) IN
                     IF uid = None
                     THEN \* user_details(&poster_eo_username)?: UserNotFound
                          /\ returns("user_details", "Err", themes, None, << >>, None)
                          /\ UNCHANGED << candidates, magnified >>
                     ELSE
                       \/ \* self.web_session.user_scores(..)?
                          /\ returns("user_scores", "Err", themes, uid, << >>, None)
                          /\ UNCHANGED << candidates, magnified >>
                       \/ \E scores \in ScoreLists :
                            LET key == select_scorekey(themes, scores) IN
                            IF key = None
                            THEN \* None => return Ok(())
                                 /\ returns("no_match", "Ok", themes, uid, scores, key)
                                 /\ UNCHANGED << candidates, magnified >>
                            ELSE
                              \/ \* msg.react(&ctx.http, magnifier)?
                                 /\ returns("react", "Err", themes, uid, scores, key)
                                 /\ UNCHANGED << candidates, magnified >>
                              \/ /\ magnified' = magnified \cup { m.id }
                                 /\ candidates' =
                                      push_candidate(candidates, m.id, m.author,
                                                     Unwrap(key), Unwrap(uid))
                                 /\ returns("end", "Ok", themes, uid, scores, key)

\* guild_member.permissions(&ctx.cache)?: State::message returns before the
\* screenshot check
message_permissions_err(m) ==
  /\ returned_at = "idle"
  /\ handled < MaxMessages
  /\ handled' = handled + 1
  /\ message_returned' = Some([ result |-> "Err", rest_handled |-> FALSE ])
  /\ UNCHANGED << localVars, magnified >>
  /\ UNCHANGED trackerVars
  /\ UNCHANGED eqVars
  /\ UNCHANGED restVars

\* how State::message can end after the screenshot check: an error of the
\* deletions or of the notice in the work-in-progress channel, the return
\* after that notice, an error of the '+' command, the end of the function
MessagePaths == { "wip_delete", "wip_notice", "command", "end" }

\* what State::message returns after the screenshot check returned
\* `screenshot_result` at `at`, and whether it came to the score links, the
\* song links and the '+' command
message_after_screenshot(screenshot_result, at, path) ==
  IF screenshot_result = "Err"
  THEN \* self.check_potential_score_screenshot(ctx, msg)?;
       [ result |-> "Err", rest_handled |-> FALSE ]
  ELSE IF path = "wip_delete"
  THEN \* msg.delete(&ctx.http)?, msg.channel_id.say(..)?, notice_msg.delete(..)?
       [ result |-> "Err", rest_handled |-> FALSE ]
  ELSE IF path = "wip_notice"
  THEN \* return Ok(());
       [ result |-> "Ok", rest_handled |-> FALSE ]
  ELSE IF path = "command"
  THEN \* self.command(&ctx, &msg, command_name, parameters)?;
       [ result |-> "Err", rest_handled |-> TRUE ]
  ELSE [ result |-> "Ok", rest_handled |-> TRUE ]

\* State::message goes on after the screenshot check: the locals of the check
\* go out of scope
message_continues(path) ==
  /\ returned_at # "idle"
  /\ path \in { "wip_delete", "wip_notice" } => ~ Unwrap(msg).has_image
  /\ message_returned' = Some(message_after_screenshot(result, returned_at, path))
  /\ returned_at' = "idle" /\ result' = "Ok"
  /\ msg' = None /\ recognized' = << >> /\ user_id' = None
  /\ recent_scores' = << >> /\ scorekey' = None
  /\ UNCHANGED << magnified, handled >>
  /\ UNCHANGED trackerVars
  /\ UNCHANGED eqVars
  /\ UNCHANGED restVars

----------------------------------------------------------------------------
trackerInit ==
  /\ candidates = manager_new
  /\ ret = None
  /\ delivered = [ m \in MessageIds |-> {} ]
  /\ reveals = [ m \in MessageIds |-> 0 ]
  /\ ignored = FALSE

eqIdle ==
  /\ this = Default /\ other = Default
  /\ score = None /\ edits = 0

ocrIdle ==
  /\ msg = None /\ recognized = << >> /\ user_id = None
  /\ recent_scores = << >> /\ scorekey = None
  /\ returned_at = "idle" /\ result = "Ok"
  /\ magnified = {} /\ handled = 0
  /\ message_returned = None

cardIdle ==
  /\ eo_score = None /\ card_info = None
  /\ replay_analysis = None /\ zero_mean_replay = None
  /\ embed = None /\ card_fn = "idle" /\ card_at = "idle" /\ card_result = "Ok"

npsIdle ==
  /\ nps_seconds = << >> /\ nps_replay = << >>
  /\ nps_fn = "idle" /\ nps_window = 0 /\ nps_result = None

judgeIdle == judge_string = << >> /\ judge_found = None

handIdle ==
  /\ hand_replay = << >> /\ hand_fn = "idle" /\ hand_note = 0 /\ hand_result = None

reactIdle ==
  /\ bot_reactions = {}
  /\ card_attempts = [ m \in MessageIds |-> 0 ]
  /\ card_failed = {}
  /\ reaction_result = "Ok"

patternIdle ==
  /\ pattern_input = << >> /\ pattern_string = << >>
  /\ pattern_rows = << >> /\ pattern_at = "idle"

lateIdle == handIdle /\ reactIdle /\ patternIdle

restIdle == cardIdle /\ npsIdle /\ judgeIdle /\ lateIdle

Init == trackerInit /\ eqIdle /\ ocrIdle /\ restIdle

Next ==
  \/ \E m \in MessageIds, a \in DiscordUsers, k \in Scorekeys, u \in EoUserIds :
       add_candidate(m, a, k, u)
  \/ \E r \in Reactions : add_reaction(r)

Spec == Init /\ [][Next]_vars

\* The equality score on its own: the two screens start both empty or both
\* full, and fields are assigned one at a time.
InitEq ==
  /\ trackerInit /\ ocrIdle /\ restIdle
  /\ this \in { Default, FullScreen }
  /\ other = this
  /\ score = None /\ edits = 0

NextEq ==
  \/ \E f \in FieldNames : \E v \in { None } \cup { Some(x) : x \in FieldValues(f) } :
       set_this(f, v)
  \/ \E f \in FieldNames : \E v \in { None } \cup { Some(x) : x \in FieldValues(f) } :
       set_other(f, v)
  \/ call_equality_score

SpecEq == InitEq /\ [][NextEq]_vars

\* The screenshot handler on its own.
NextOcr ==
  \/ \E m \in Messages : message_permissions_err(m)
  \/ \E m \in Messages : check_potential_score_screenshot(m)
  \/ \E path \in MessagePaths : message_continues(path)

SpecOcr == Init /\ [][NextOcr]_vars

----------------------------------------------------------------------------
(* Properties of the confirmation tracker, checked under Spec.              *)

\* the candidate add_reaction works on for a message: the first one in the list
first_candidate(m) == candidates[find_candidate(candidates, m)]

registered(m) == find_candidate(candidates, m) # 0

\* C1: add_reaction returns Some((scorekey, user_id)) only if, after the reactor
\* was inserted, the candidate's reactors hold its author and at least 2 users;
\* whenever it returns None the candidate's printed flag is what it was (a
\* pending candidate stays pending).
C1_RevealOnlyWhenConfirmed ==
  [][ \A r \in Reactions : add_reaction(r) =>
        LET i == find_candidate(candidates, r.message_id) IN
        /\ ret' # None =>
             /\ i # 0
             /\ ~ candidates[i].score_card_has_been_printed
             /\ r.user_id \in candidates'[i].reactors
             /\ candidates'[i].author_id \in candidates'[i].reactors
             /\ Cardinality(candidates'[i].reactors) >= 2
             /\ candidates'[i].score_card_has_been_printed
             /\ ret' = Some(<< candidates[i].scorekey, candidates[i].user_id >>)
        /\ ret' = None =>
             \A j \in 1..Len(candidates) :
               candidates'[j].score_card_has_been_printed
                 = candidates[j].score_card_has_been_printed
    ]_vars

\* a reveal was just returned while another candidate is pending with a reactor
C1_Witness ==
  /\ ret # None
  /\ \E i, j \in 1..Len(candidates) :
       /\ candidates[i].score_card_has_been_printed
       /\ ~ candidates[j].score_card_has_been_printed
       /\ candidates[j].reactors # {}

\* C2: once add_reaction has returned a result for a message, every later
\* add_reaction call for that message returns None and changes no candidate.
C2_RevealAtMostOnce ==
  [][ \A r \in Reactions :
        (reveals[r.message_id] >= 1 /\ add_reaction(r)) =>
          /\ ret' = None
          /\ candidates' = candidates
          /\ reveals' = reveals
    ]_vars

\* after the reveal of a message, a user outside its reactor set reacted to it,
\* and a second candidate of the same message was registered
C2_Witness ==
  \E m \in MessageIds :
    /\ reveals[m] = 1
    /\ delivered[m] # first_candidate(m).reactors
    /\ \E i \in 1..Len(candidates) :
         candidates[i].message_id = m /\ i # find_candidate(candidates, m)
    /\ ret = None

\* C3: for a registered message the number of reveals is 1 if the users whose
\* reactions were delivered include the author and at least one other user, and
\* 0 otherwise, whatever the order and the repetitions of the deliveries.
C3_RevealIndependentOfOrder ==
  \A m \in MessageIds :
    reveals[m] =
      IF /\ registered(m)
         /\ first_candidate(m).author_id \in delivered[m]
         /\ Cardinality(delivered[m]) >= 2
      THEN 1 ELSE 0

\* one message revealed after all three users reacted, another one with two
\* reactors, none of them the author, and no reveal
C3_Witness ==
  \E m1, m2 \in MessageIds :
    /\ reveals[m1] = 1 /\ delivered[m1] = DiscordUsers
    /\ registered(m2) /\ reveals[m2] = 0
    /\ Cardinality(delivered[m2]) = 2

\* C4: the tracker holds at most one candidate per message id.
C4_OneCandidatePerMessage ==
  \A i, j \in 1..Len(candidates) :
    candidates[i].message_id = candidates[j].message_id => i = j

----------------------------------------------------------------------------
(* Properties of the equality score, checked under SpecEq.                  *)

\* the weights the specification gives the fields
Weight(f) ==
  CASE f = "rate"        -> 2
    [] f = "pack"        -> 3
    [] f = "eo_username" -> 5
    [] f = "song"        -> 6
    [] f = "artist"      -> 3
    [] f = "wifescore"   -> 5
    [] f = "msd"         -> 6
    [] f = "ssr"         -> 6
    [] f = "difficulty"  -> 2
    [] f = "judgements"  -> 2

FloatFields == { "wifescore", "msd", "ssr" }

JudgementCounts == { "marvelouses", "perfects", "greats", "goods", "bads", "misses" }

\* two floats within 0.01 of each other
Close(x, y) == x.finite /\ y.finite /\ (x.milli - y.milli) \in (0 - 10)..10

\* the values x and y of field f are considered equal
ConsideredEqual(f, x, y) == IF f \in FloatFields THEN Close(x, y) ELSE x = y

\* the fields other than the judgements that are present in both and equal
MatchedFields(a, b) ==
  { f \in FieldNames \ { "judgements" } :
      IsSome(a[f]) /\ IsSome(b[f]) /\ ConsideredEqual(f, a[f][1], b[f][1]) }

\* the judgement counts that are present in both and equal
MatchedCounts(a, b) ==
  IF IsSome(a.judgements) /\ IsSome(b.judgements)
  THEN { c \in JudgementCounts : a.judgements[1][c] = b.judgements[1][c] }
  ELSE {}

RECURSIVE SumWeights(_)
SumWeights(fs) ==
  IF fs = {} THEN 0
  ELSE LET f == CHOOSE x \in fs : TRUE IN Weight(f) + SumWeights(fs \ {f})

ExpectedScore(a, b) ==
  SumWeights(MatchedFields(a, b)) + 2 * Cardinality(MatchedCounts(a, b))

\* C7: the equality score of a against b is that of b against a.
C7_Commutative ==
  /\ equality_score(this, other) = equality_score(other, this)
  /\ IsSome(score) => Unwrap(score)[1] = Unwrap(score)[2]

\* scores were computed for two screens that differ, with a float field
\* present and different in both and a field present in one of them only
C7_Witness ==
  /\ IsSome(score)
  /\ Unwrap(score)[1] > 0
  /\ \E f \in FloatFields :
       IsSome(this[f]) /\ IsSome(other[f]) /\ this[f] # other[f]
  /\ \E f \in FieldNames : IsSome(this[f]) /\ other[f] = None

\* C8: the equality score is the sum of the weights of the fields present in
\* both screens and considered equal; it lies between 0 and 50.
C8_SumOfMatchedWeights ==
  /\ equality_score(this, other) = ExpectedScore(this, other)
  /\ equality_score(this, other) >= 0
  /\ equality_score(this, other) <= 50
  /\ IsSome(score) => Unwrap(score)[1] = ExpectedScore(this, other)

\* a score of 41: every field equal except the songs, which differ, and the
\* pack, which one screen lacks
C8_Witness ==
  /\ score = Some(<< 41, 41 >>)
  /\ IsSome(this.song) /\ IsSome(other.song) /\ this.song # other.song
  /\ this.pack = None \/ other.pack = None

\* the field f of a reading agrees with the candidate's: for the judgements,
\* all six counts
Agrees(f, v, candidate) ==
  /\ IsSome(candidate[f])
  /\ ConsideredEqual(f, v, candidate[f][1])

FieldWeight(f) == IF f = "judgements" THEN 6 * Weight(f) ELSE Weight(f)

\* C9: setting an absent field of the reading to a value that agrees with the
\* candidate raises the equality score by the weight of the field.
C9_Monotone ==
  [][ \A f \in FieldNames : \A v \in FieldValues(f) :
        (this[f] = None /\ Agrees(f, v, other) /\ set_this(f, Some(v))) =>
          equality_score(this', other') = equality_score(this, other) + FieldWeight(f)
    ]_vars

\* the candidate's only field is a wifescore, and the reading's only field a
\* wifescore within 0.01 of it: the score is the weight of the wifescore
C9_Witness ==
  /\ edits = 2
  /\ other = [ Default EXCEPT !.wifescore = Some(F32(96500)) ]
  /\ this = [ Default EXCEPT !.wifescore = Some(F32(96495)) ]
  /\ equality_score(this, other) = 5

----------------------------------------------------------------------------
(* Properties of the score identification, checked under SpecOcr.           *)

MaxOf(S) == CHOOSE x \in S : \A y \in S : y <= x

\* the score of a record: its greatest equality score over the readings
BestScore(themes, s) ==
  MaxOf({ 0 } \cup { equality_score(themes[i], score_as_eval(s)) : i \in 1..Len(themes) })

\* the handler got its readings and the recent scores, and went through the
\* identification
Identified == returned_at \in { "no_match", "react", "end" }

\* the records whose score exceeds the threshold of 8
Clearing(themes, scores) ==
  { i \in 1..Len(scores) : BestScore(themes, scores[i]) > 8 }

\* C5: the record whose scorekey is selected has a score greater than 8.
C5_SelectedExceedsThreshold ==
  IsSome(scorekey) =>
    /\ \E i \in 1..Len(recent_scores) : recent_scores[i].scorekey = Unwrap(scorekey)
    /\ \A i \in 1..Len(recent_scores) :
         recent_scores[i].scorekey = Unwrap(scorekey) =>
           BestScore(recognized, recent_scores[i]) > 8

\* a record was selected and registered while another record scored exactly 8
C5_Witness ==
  /\ returned_at = "end"
  /\ IsSome(scorekey)
  /\ \E j \in 1..Len(recent_scores) :
       /\ BestScore(recognized, recent_scores[j]) = 8
       /\ recent_scores[j].scorekey # Unwrap(scorekey)

\* C6: the selected scorekey is that of the earliest record whose score is the
\* highest among the records that exceed the threshold; none is selected
\* when no record exceeds it.
C6_EarliestHighest ==
  Identified =>
    LET clearing == Clearing(recognized, recent_scores) IN
    IF clearing = {} THEN scorekey = None
    ELSE LET top == CHOOSE i \in clearing :
                      \A j \in clearing :
                        \/ BestScore(recognized, recent_scores[j])
                             < BestScore(recognized, recent_scores[i])
                        \/ /\ BestScore(recognized, recent_scores[j])
                                = BestScore(recognized, recent_scores[i])
                           /\ i <= j
         IN  scorekey = Some(recent_scores[top].scorekey)

\* two different readings, two records with the same score above 8: the first
\* record is the selected one
C6_Witness ==
  /\ Identified
  /\ Len(recognized) = 2 /\ recognized[1] # recognized[2]
  /\ Len(recent_scores) = 2
  /\ BestScore(recognized, recent_scores[1]) = BestScore(recognized, recent_scores[2])
  /\ BestScore(recognized, recent_scores[1]) > 8
  /\ scorekey = Some(recent_scores[1].scorekey)

\* C10: a run of the handler (the step from "idle" to a return) in which no
\* recent score exceeds the threshold registers no candidate and adds no
\* reaction, and once it has the recent scores it returns Ok.
C10_NoMatchIsOk ==
  [][ ( /\ returned_at = "idle" /\ returned_at' # "idle"
        /\ Clearing(recognized', recent_scores') = {} ) =>
          /\ candidates' = candidates
          /\ magnified' = magnified
          /\ scorekey' = None
          /\ Identified' => result' = "Ok"
    ]_vars

\* the handler returned Ok with nothing registered, with readings and recent
\* scores of which one scored exactly 8
C10_Witness ==
  /\ returned_at = "no_match" /\ result = "Ok"
  /\ recognized # << >> /\ recent_scores # << >>
  /\ \E j \in 1..Len(recent_scores) : BestScore(recognized, recent_scores[j]) = 8
  /\ candidates = << >> /\ magnified = {}

----------------------------------------------------------------------------
(* More properties of the confirmation tracker, checked under Spec.         *)

\* C11: add_reaction for a message id that no candidate of the list has
\* returns None and leaves the whole candidate list (every reactor set and
\* every printed flag) as it was.
C11_UnregisteredReactionIgnored ==
  [][ \A r \in Reactions :
        ( /\ \A i \in 1..Len(candidates) : candidates[i].message_id # r.message_id
          /\ add_reaction(r) ) =>
          /\ ret' = None
          /\ candidates' = candidates
          /\ reveals' = reveals
    ]_vars

\* the latest reaction found no candidate and returned None, while the list
\* holds a printed candidate with its reactors
C11_Witness ==
  /\ ignored /\ ret = None
  /\ \E i \in 1..Len(candidates) :
       /\ candidates[i].score_card_has_been_printed
       /\ Cardinality(candidates[i].reactors) >= 2
  /\ \E m \in MessageIds :
       \A i \in 1..Len(candidates) : candidates[i].message_id # m

----------------------------------------------------------------------------
(* f32 values of the replay analytics, kept exact: the quotient n / d of    *)
(* two integers with d >= 0, where d = 0 stands for the non-finite results  *)
(* of a division by zero: n > 0 is +inf, n < 0 is -inf, n = 0 is NaN.       *)

Abs(x) == IF x < 0 THEN 0 - x ELSE x

RECURSIVE gcd(_, _)
gcd(a, b) == IF b = 0 THEN a ELSE gcd(b, a % b)

\* n / d with d >= 0 and the common divisor g > 0 taken out
lowest_terms(n, d, g) == [ n |-> n \div g, d |-> d \div g ]

\* the quotient n / d in lowest terms
Q(n, d) ==
  IF n = 0 /\ d = 0 THEN [ n |-> 0, d |-> 0 ]
  ELSE IF d < 0 THEN lowest_terms(0 - n, 0 - d, gcd(Abs(n), Abs(d)))
  ELSE lowest_terms(n, d, gcd(Abs(n), Abs(d)))

Zero == [ n |-> 0, d |-> 1 ]

NaNQ == [ n |-> 0, d |-> 0 ]

is_nan(a) == a.d = 0 /\ a.n = 0

\* the sign of a non-NaN value: -1, 0 or 1
sign(a) == IF a.n > 0 THEN 1 ELSE IF a.n < 0 THEN 0 - 1 ELSE 0

\* a > b on f32: false when either side is NaN
q_gt(a, b) ==
  IF is_nan(a) \/ is_nan(b) THEN FALSE
  ELSE IF a.d = 0 /\ b.d = 0 THEN sign(a) > sign(b)
  ELSE IF a.d = 0 THEN sign(a) > 0
  ELSE IF b.d = 0 THEN sign(b) < 0
  ELSE a.n * b.d > b.n * a.d

\* a >= b on f32: false when either side is NaN
q_ge(a, b) ==
  IF is_nan(a) \/ is_nan(b) THEN FALSE
  ELSE IF a.d = 0 /\ b.d = 0 THEN sign(a) >= sign(b)
  ELSE IF a.d = 0 THEN sign(a) > 0
  ELSE IF b.d = 0 THEN sign(b) < 0
  ELSE a.n * b.d >= b.n * a.d

\* a - b on f32: inf - inf of the same sign is NaN
q_sub(a, b) ==
  IF is_nan(a) \/ is_nan(b) THEN NaNQ
  ELSE IF a.d = 0 /\ b.d = 0 THEN (IF sign(a) = sign(b) THEN NaNQ ELSE a)
  ELSE IF a.d = 0 THEN a
  ELSE IF b.d = 0 THEN [ n |-> 0 - b.n, d |-> 0 ]
  ELSE Q(a.n * b.d - b.n * a.d, a.d * b.d)

\* a / b on f32: x / 0.0 is +inf or -inf by the sign of x, 0.0 / 0.0 and
\* inf / inf are NaN (the zeros of these computations are positive zeros)
q_div(a, b) ==
  IF is_nan(a) \/ is_nan(b) THEN NaNQ
  ELSE IF b.n < 0 THEN Q(0 - (a.n * b.d), a.d * (0 - b.n))
  ELSE Q(a.n * b.d, a.d * b.n)

\* if a > b { b = a }: the value of b afterwards
raised_to(a, b) == IF q_gt(a, b) THEN a ELSE b

----------------------------------------------------------------------------
(* etterna and etternaonline_api: the replay, the judges and the functions  *)
(* of the two crates that the score card calls. Times and deviations are    *)
(* f32 seconds, written as integers that count tenths of a millisecond.     *)

\* etterna::Hit::Hit { deviation }
Hit(deviation) == [ miss |-> FALSE, deviation |-> deviation ]

\* etterna::Hit::Miss
Miss == [ miss |-> TRUE, deviation |-> 0 ]

\* etternaonline_api::ReplayNote: lane is an Option<u8>, note_type an
\* Option<etterna::NoteType>
ReplayNote(time, hit, lane, note_type) ==
  [ time |-> time, hit |-> hit, lane |-> lane, note_type |-> note_type ]

\* the timing scale of the nine built-in judges, in thousandths
TimingScale == << 1500, 1330, 1160, 1000, 840, 660, 500, 330, 200 >>

\* etterna::J1 .. etterna::J9: the name and the windows the score card reads
BuiltinJudge(n) ==
  [ name |-> n,
    marvelous_window |-> (225 * TimingScale[n]) \div 1000,
    perfect_window |-> (450 * TimingScale[n]) \div 1000,
    great_window |-> (900 * TimingScale[n]) \div 1000 ]

J4 == BuiltinJudge(4)

\* a function on 1..n written out as the list of its values
Listed(f) == SubSeq(f, 1, Len(f))

\* Hit::is_within_window: a hit whose deviation lies within the window
is_within_window(hit, window) == ~ hit.miss /\ Abs(hit.deviation) <= window

\* Hit::is_considered_miss: a miss, or a hit outside the widest window
is_considered_miss(hit, judge) ==
  hit.miss \/ Abs(hit.deviation) > 2 * judge.great_window

\* the greatest element of a finite set of integers
Greatest(S) == CHOOSE c \in S : \A k \in S : k <= c

\* the running streak of longest_combo after note i: i minus the index of the
\* latest note up to i that was outside the window (0 if there is none)
streak_after(notes, window, i) ==
  i - Greatest({ 0 } \cup { j \in 1..i : ~ is_within_window(notes[j].hit, window) })

\* a streak that survives the notes outside the window
longest_combo_no_reset(notes, window) ==
  Cardinality({ k \in 1..Len(notes) : is_within_window(notes[k].hit, window) })

\* SimpleReplay::longest_combo: one scan with a running streak that grows on a
\* hit within the window, falls to zero on every other note, and whose maximum
\* is returned
longest_combo(notes, window) ==
  Greatest({ 0 } \cup { streak_after(notes, window, i) : i \in 1..Len(notes) })

\* the deviations of a list of hit notes
deviations_of(hits) == Listed([ i \in 1..Len(hits) |-> hits[i].hit.deviation ])

\* the sum of xs[lo..hi], by halves
RECURSIVE SumRange(_, _, _)
SumRange(xs, lo, hi) ==
  IF lo > hi THEN 0
  ELSE IF lo = hi THEN xs[lo]
  ELSE SumRange(xs, lo, (lo + hi) \div 2) + SumRange(xs, (lo + hi) \div 2 + 1, hi)

\* n / d rounded to the nearest integer, halves away from zero
RoundDiv(n, d) ==
  IF n >= 0 THEN (2 * n + d) \div (2 * d) ELSE 0 - ((2 * (0 - n) + d) \div (2 * d))

\* the mean of a list of deviations as f32, rounded to the resolution of the
\* model: NaN (0.0 / 0.0) for the empty list
mean_of(devs) ==
  IF devs = << >> THEN [ finite |-> FALSE, ticks |-> 0 ]
  ELSE [ finite |-> TRUE, ticks |-> RoundDiv(SumRange(devs, 1, Len(devs)), Len(devs)) ]

\* SimpleReplay::mean_deviation: the arithmetic mean of the deviations of the
\* hit notes
mean_deviation(notes) == mean_of(deviations_of(SelectSeq(notes, LAMBDA note : ~ note.hit.miss)))

\* whether the lane and the note type of every note are known
has_lanes(notes) ==
  \A i \in 1..Len(notes) : notes[i].lane # None /\ notes[i].note_type # None

\* whether the note type of every note is known
has_note_types(notes) == \A i \in 1..Len(notes) : notes[i].note_type # None

\* the seconds at which a list of hit notes was hit: time + deviation
seconds_of(hits) == Listed([ i \in 1..Len(hits) |-> hits[i].time + hits[i].hit.deviation ])

\* the seconds at which the notes of the lanes `lanes` were hit: one entry for
\* every tap or hold head that was hit, in replay order
hit_seconds_of(notes, lanes) ==
  seconds_of(SelectSeq(notes,
    LAMBDA note :
      /\ note.note_type \in { Some("Tap"), Some("HoldHead") }
      /\ ~ note.hit.miss
      /\ (note.lane = None \/ Unwrap(note.lane) \in lanes)))

\* Replay::split_into_notes_and_hits(..).hit_seconds: None when the replay
\* lacks the information
split_into_notes_and_hits(notes) ==
  IF has_note_types(notes) THEN Some(hit_seconds_of(notes, 0..3)) ELSE None

\* Replay::split_into_lanes: the hit seconds of the four lanes, None when the
\* replay lacks the information
split_into_lanes(notes) ==
  IF has_lanes(notes)
  THEN Some(<< hit_seconds_of(notes, { 0 }), hit_seconds_of(notes, { 1 }),
               hit_seconds_of(notes, { 2 }), hit_seconds_of(notes, { 3 }) >>)
  ELSE None

\* the rate of a window of `window_size` seconds that spans `span` tenths of a
\* millisecond: (window_size - 1) / (last - first); 0 for a window of no span
window_speed(window_size, span) ==
  IF span = 0 THEN Zero ELSE Q((window_size - 1) * 10000, span)

\* etterna::find_fastest_note_subset over the windows of `window_size`
\* consecutive seconds: the highest rate is kept, starting from 0
RECURSIVE window_scan(_, _, _, _)
window_scan(secs, window_size, i, fastest) ==
  IF i + window_size - 1 > Len(secs) THEN fastest
  ELSE window_scan(secs, window_size, i + 1,
         raised_to(window_speed(window_size, secs[i + window_size - 1] - secs[i]),
                   fastest))

find_fastest_note_subset(secs, window_size, min_notes) ==
  [ speed |-> window_scan(secs, window_size, 1, Zero) ]

\* the place of every element of xs in the sorted list: after the elements
\* that are smaller, or equal and earlier
places(xs) ==
  Listed([ i \in 1..Len(xs) |->
             1 + Cardinality({ j \in 1..Len(xs) :
                                 xs[j] < xs[i] \/ (xs[j] = xs[i] /\ j < i) }) ])

placed(xs, place) ==
  Listed([ k \in 1..Len(xs) |-> xs[CHOOSE i \in 1..Len(xs) : place[i] = k] ])

\* slice::sort_unstable_by(|a, b| a.partial_cmp(b).unwrap()) on finite values
sort_unstable(xs) == placed(xs, places(xs))

\* the weights of the Wife3 formula, in thousandths of a wife point
MISS_WEIGHT == 0 - 2750

HOLD_DROP_WEIGHT == 0 - 2250

MINE_HIT_WEIGHT == 0 - 3500

\* the wife points of a hit that lies `dev` off, in thousandths: 1.0 within
\* 5 ms on J4, falling with the distance, negative far out
curve(wife, dev, judge) ==
  IF dev * 1000 <= 50 * TimingScale[judge.name] THEN 1000
  ELSE IF dev <= judge.marvelous_window THEN (IF wife = "Wife3" THEN 950 ELSE 990)
  ELSE IF dev <= judge.perfect_window THEN (IF wife = "Wife3" THEN 700 ELSE 800)
  ELSE IF dev <= judge.great_window THEN (IF wife = "Wife3" THEN 200 ELSE 400)
  ELSE IF dev <= 2 * judge.great_window THEN 0 - 1000
  ELSE MISS_WEIGHT

\* etterna::wife3 (and wife2): the wife points of one hit under a judge, the
\* miss weight for a miss
wife_points(wife, hit, judge) ==
  IF hit.miss THEN MISS_WEIGHT ELSE curve(wife, Abs(hit.deviation), judge)

wife3(hit, judge) == wife_points("Wife3", hit, judge)

\* the notes a rescoring counts: taps, hold heads and lifts (a note without a
\* type counts as a tap)
countable(note) ==
  note.note_type \in { None, Some("Tap"), Some("HoldHead"), Some("Lift") }

\* the mean of `points` thousandths of wife points over num_notes notes,
\* None without any note
mean_wife_points(points, num_notes) ==
  IF num_notes = 0 THEN None ELSE Some(Q(points, 1000 * num_notes))

\* the wife points of a list of notes and of the counted penalties
total_wife_points(wife, notes, num_mine_hits, num_hold_drops, judge) ==
  SumRange([ i \in 1..Len(notes) |-> wife_points(wife, notes[i].hit, judge) ], 1, Len(notes))
    + num_mine_hits * MINE_HIT_WEIGHT + num_hold_drops * HOLD_DROP_WEIGHT

\* etterna::rescore_from_note_hits over the hits of the given notes
rescore_from_note_hits(wife, notes, num_mine_hits, num_hold_drops, judge) ==
  mean_wife_points(total_wife_points(wife, notes, num_mine_hits, num_hold_drops, judge),
                   Len(notes))

\* etternaonline_api::rescore::<NaiveScorer, W>: the mean wife points of the
\* countable notes, with the penalties of the mine hits and the hold drops;
\* None when no note is countable
rescore(wife, notes, num_mine_hits, num_hold_drops, judge) ==
  rescore_from_note_hits(wife, SelectSeq(notes, countable),
                         num_mine_hits, num_hold_drops, judge)

----------------------------------------------------------------------------
(* score_card: the replay analysis. A replay is the sequence of its notes.  *)

\* the (20, 20) of max_finger_nps
FINGER_WINDOW == 20

\* the (100, 100) of fastest_nps
TOTAL_WINDOW == 100

\* hit.is_within_window(0.005), in tenths of a millisecond
FULL_WINDOW == 50

\* the overall figure searched with the window of the per-finger figure
fastest_nps_of_finger_window(unsorted_hit_seconds) ==
  find_fastest_note_subset(sort_unstable(unsorted_hit_seconds),
                           FINGER_WINDOW, FINGER_WINDOW).speed

\* fastest_nps after the `?`: the hit seconds are sorted, then searched
fastest_nps_of(unsorted_hit_seconds) ==
  find_fastest_note_subset(sort_unstable(unsorted_hit_seconds),
                           TOTAL_WINDOW, TOTAL_WINDOW).speed

\* fn fastest_nps: Option<f32>
fastest_nps(replay) ==
  IF has_note_types(replay) THEN Some(fastest_nps_of(hit_seconds_of(replay, 0..3)))
  ELSE None

\* for lane in &lanes { .. if this_fingers_max_nps > max_finger_nps { .. } }:
\* the hit seconds of each lane are sorted, then searched
RECURSIVE lane_loop(_, _, _)
lane_loop(replay, lane, max_so_far) ==
  IF lane > 3 THEN max_so_far
  ELSE lane_loop(replay, lane + 1,
         raised_to(find_fastest_note_subset(
                     sort_unstable(hit_seconds_of(replay, { lane })),
                     FINGER_WINDOW, FINGER_WINDOW).speed,
                   max_so_far))

\* fn max_finger_nps: Option<f32>
max_finger_nps(replay) ==
  IF has_lanes(replay) THEN Some(lane_loop(replay, 0, Zero)) ELSE None

\* the miss notes shifted like the hits
shift_note_always(note, mean_offset) ==
  [ note EXCEPT !.hit.deviation = @ - mean_offset.ticks ]

\* the closure of adjust_offset: a clone of the note, its deviation lowered by
\* the mean offset if it is a hit (a NaN mean only arises without any hit)
shift_note(note, mean_offset) ==
  IF note.hit.miss THEN note
  ELSE [ note EXCEPT !.hit.deviation = @ - mean_offset.ticks ]

\* the result of adjust_offset for the mean offset of the replay
adjusted_by(replay, mean_offset) ==
  [ mean_offset |-> mean_offset,
    replay_zero_mean |->
      Listed([ i \in 1..Len(replay) |-> shift_note(replay[i], mean_offset) ]) ]

\* fn adjust_offset: (mean_offset, replay_zero_mean)
adjust_offset(replay) == adjusted_by(replay, mean_deviation(replay))

\* the `?`s of make_scoring_system_comparison
comparison_of(wife2_score, wife3_score, wife3_score_zero_mean) ==
  IF wife2_score = None \/ wife3_score = None \/ wife3_score_zero_mean = None
  THEN None
  ELSE Some([ wife2_score |-> Unwrap(wife2_score),
              wife3_score |-> Unwrap(wife3_score),
              wife3_score_zero_mean |-> Unwrap(wife3_score_zero_mean) ])

hold_drops(score_data) ==
  score_data.judgements.let_go_holds + score_data.judgements.missed_holds

\* fn make_scoring_system_comparison: None as soon as one rescoring is None
make_scoring_system_comparison(score_data, replay, zero_mean, judge) ==
  comparison_of(
    rescore("Wife2", replay, score_data.judgements.hit_mines, hold_drops(score_data), judge),
    rescore("Wife3", replay, score_data.judgements.hit_mines, hold_drops(score_data), judge),
    rescore("Wife3", zero_mean, score_data.judgements.hit_mines, hold_drops(score_data), judge))

\* replay_note_wife_points with hold tails counted as notes
wife_points_by_type_counting_tails(note, note_type) ==
  IF note_type \in { "Tap", "HoldHead", "Lift" }
  THEN [ wife_points |-> wife3(note.hit, J4), num_notes |-> 1 ]
  ELSE IF note_type = "HoldTail"
  THEN [ wife_points |-> IF is_considered_miss(note.hit, J4) THEN HOLD_DROP_WEIGHT ELSE 0,
         num_notes |-> 1 ]
  ELSE IF note_type = "Mine"
  THEN [ wife_points |-> IF note.hit.miss THEN 0 ELSE MINE_HIT_WEIGHT, num_notes |-> 0 ]
  ELSE [ wife_points |-> 0, num_notes |-> 0 ]

\* the match of replay_note_wife_points on the note type
wife_points_by_type(note, note_type) ==
  IF note_type \in { "Tap", "HoldHead", "Lift" }
  THEN [ wife_points |-> wife3(note.hit, J4), num_notes |-> 1 ]
  ELSE IF note_type = "HoldTail"
  THEN [ wife_points |-> IF is_considered_miss(note.hit, J4) THEN HOLD_DROP_WEIGHT ELSE 0,
         num_notes |-> 0 ]
  ELSE IF note_type = "Mine"
  THEN [ wife_points |-> IF note.hit.miss THEN 0 ELSE MINE_HIT_WEIGHT, num_notes |-> 0 ]
  ELSE [ wife_points |-> 0, num_notes |-> 0 ]

\* fn replay_note_wife_points: (wife_points, num_notes)
replay_note_wife_points(note) ==
  wife_points_by_type(note,
    \* note.note_type.unwrap_or(etterna::NoteType::Tap)
    IF note.note_type = None THEN "Tap" ELSE Unwrap(note.note_type))

\* wife_points / num_notes as f32, of the notes of one hand
hand_wifescore(of_hand) ==
  Q(SumRange([ i \in 1..Len(of_hand) |-> replay_note_wife_points(of_hand[i]).wife_points ],
             1, Len(of_hand)),
    1000 * SumRange([ i \in 1..Len(of_hand) |-> replay_note_wife_points(of_hand[i]).num_notes ],
                    1, Len(of_hand)))

\* calculate_hand_wifescores with `_ => continue` replaced by the right hand
calculate_hand_wifescores_rest_right(replay) ==
  [ left_wifescore |-> hand_wifescore(SelectSeq(replay, LAMBDA note : note.lane \in { Some(0), Some(1) })),
    right_wifescore |-> hand_wifescore(SelectSeq(replay, LAMBDA note : note.lane \notin { Some(0), Some(1) })) ]

\* fn calculate_hand_wifescores: (left_wifescore, right_wifescore)
calculate_hand_wifescores(replay) ==
  [ left_wifescore |-> hand_wifescore(SelectSeq(replay, LAMBDA note : note.lane \in { Some(0), Some(1) })),
    right_wifescore |-> hand_wifescore(SelectSeq(replay, LAMBDA note : note.lane \in { Some(2), Some(3) })) ]

\* the test of make_left_right_hand_difference_fun_fact:
\* (1.0 - lower_hand) / (1.0 - better_hand) >= 2.0
twice_as_good(better_hand, lower_hand) ==
  q_ge(q_div(q_sub([ n |-> 1, d |-> 1 ], lower_hand),
             q_sub([ n |-> 1, d |-> 1 ], better_hand)),
       [ n |-> 2, d |-> 1 ])

\* the fun fact pushed for a better and a lower hand, if any
hand_fact(fun_facts, better_hand_name, better_hand, lower_hand) ==
  IF twice_as_good(better_hand, lower_hand)
  THEN Append(fun_facts, [ better_hand_name |-> better_hand_name,
                           better_hand |-> better_hand, lower_hand |-> lower_hand ])
  ELSE fun_facts

\* if left_wifescore > right_wifescore { (left, right) } else { (right, left) }
hand_difference(fun_facts, left_wifescore, right_wifescore) ==
  IF q_gt(left_wifescore, right_wifescore)
  THEN hand_fact(fun_facts, "left", left_wifescore, right_wifescore)
  ELSE hand_fact(fun_facts, "right", right_wifescore, left_wifescore)

hand_difference_of(fun_facts, hands) ==
  hand_difference(fun_facts, hands.left_wifescore, hands.right_wifescore)

\* fn make_left_right_hand_difference_fun_fact: fun_facts after the call
make_left_right_hand_difference_fun_fact(fun_facts, replay) ==
  hand_difference_of(fun_facts, calculate_hand_wifescores(replay))


Ok(x) == << "Ok", x >>

Err(e) == << "Err", e >>

\* the outcomes of replay_graph::generate_replay_graph: Ok(Some(())), Ok(None)
\* or Err
GraphOutcomes == { "Some", "None", "Err" }

\* combo counts whose streaks survive the notes outside the window
combos_no_reset(replay) ==
  [ longest_100_combo |-> longest_combo_no_reset(replay, FULL_WINDOW),
    longest_marv_combo |-> longest_combo_no_reset(replay, J4.marvelous_window),
    longest_perf_combo |-> longest_combo_no_reset(replay, J4.perfect_window),
    longest_combo |-> longest_combo_no_reset(replay, J4.great_window) ]

\* combo counts with the windows of the first and the last one exchanged
combos_windows_exchanged(replay) ==
  [ longest_100_combo |-> longest_combo(replay, J4.great_window),
    longest_marv_combo |-> longest_combo(replay, J4.marvelous_window),
    longest_perf_combo |-> longest_combo(replay, J4.perfect_window),
    longest_combo |-> longest_combo(replay, FULL_WINDOW) ]

\* the four combo counts of the analysis
combos(replay) ==
  [ longest_100_combo |-> longest_combo(replay, FULL_WINDOW),
    longest_marv_combo |-> longest_combo(replay, J4.marvelous_window),
    longest_perf_combo |-> longest_combo(replay, J4.perfect_window),
    longest_combo |-> longest_combo(replay, J4.great_window) ]

\* the comparison under the alternative judge, if there is one: the outer
\* None is the `?` on an unavailable comparison
alternative_comparison(score_data, alternative_judge, replay, zero_mean) ==
  IF alternative_judge = None THEN Some(None)
  ELSE IF make_scoring_system_comparison(score_data, replay, zero_mean,
                                         Unwrap(alternative_judge)) = None
  THEN None
  ELSE Some(make_scoring_system_comparison(score_data, replay, zero_mean,
                                           Unwrap(alternative_judge)))

\* the `?`s of do_replay_analysis and the ReplayAnalysis it builds
analysis_from(j4, alternative, jack, nps, replay_combos, mean_offset, fun_facts) ==
  IF j4 = None THEN None
  ELSE IF alternative = None THEN None
  ELSE IF jack = None THEN None
  ELSE IF nps = None THEN None
  ELSE Some(Ok(
    [ replay_graph_path |-> "replay_graph.png",
      scoring_system_comparison_j4 |-> Unwrap(j4),
      scoring_system_comparison_alternative |-> Unwrap(alternative),
      fastest_finger_jackspeed |-> Unwrap(jack),
      fastest_nps |-> Unwrap(nps),
      combos |-> replay_combos,
      mean_offset |-> mean_offset,
      fun_facts |-> fun_facts ]))

\* do_replay_analysis after the replay graph was written
analysis_of(score_data, alternative_judge, replay, adjusted) ==
  analysis_from(
    make_scoring_system_comparison(score_data, replay, adjusted.replay_zero_mean, J4),
    alternative_comparison(score_data, alternative_judge, replay, adjusted.replay_zero_mean),
    max_finger_nps(replay),
    fastest_nps(replay),
    combos(replay),
    adjusted.mean_offset,
    make_left_right_hand_difference_fun_fact(<< >>, replay))

\* a missing replay treated as an error of the analysis
do_replay_analysis_replay_required(score_data, alternative_judge, graph) ==
  IF score_data.replay = None \/ graph = "Err" THEN Some(Err("replay"))
  ELSE None

\* fn do_replay_analysis: Option<Result<ReplayAnalysis, Error>>; `graph` is
\* what generate_replay_graph answers
do_replay_analysis(score_data, alternative_judge, graph) ==
  IF score_data.replay = None THEN None
  ELSE IF graph = "None" THEN None
  ELSE IF graph = "Err" THEN Some(Err("replay_graph"))
  ELSE analysis_of(score_data, alternative_judge, Unwrap(score_data.replay),
                   adjust_offset(Unwrap(score_data.replay)))

\* the wifescore computed under J4 when no alternative judge is given
alternative_judge_wifescore_of_any(score_data, alternative_judge) ==
  IF score_data.replay # None
  THEN rescore_from_note_hits("Wife3", Unwrap(score_data.replay),
                              score_data.judgements.hit_mines, hold_drops(score_data),
                              IF alternative_judge = None THEN J4
                              ELSE Unwrap(alternative_judge))
  ELSE None

\* the wifescore under the alternative judge, computed when there is such a
\* judge and a replay
alternative_judge_wifescore_of(score_data, alternative_judge) ==
  IF alternative_judge # None /\ score_data.replay # None
  THEN rescore_from_note_hits("Wife3", Unwrap(score_data.replay),
                              score_data.judgements.hit_mines, hold_drops(score_data),
                              Unwrap(alternative_judge))
  ELSE None

\* info.alternative_judge.unwrap().name: the name, or the panic of unwrap()
\* on None
unwrap_name(alternative_judge) ==
  IF alternative_judge = None THEN "panic" ELSE Unwrap(alternative_judge).name

\* the line of the alternative judge in the description
alternative_wife_line(alternative_judge, alternative_judge_wifescore) ==
  IF alternative_judge_wifescore = None THEN None
  ELSE Some(<< unwrap_name(alternative_judge), Unwrap(alternative_judge_wifescore) >>)

\* fn write_score_card_body: the parts of the description that vary
write_score_card_body(info, score_data, alternative_judge_wifescore) ==
  [ wife_line |-> score_data.wifescore,
    alternative_wife_line |->
      alternative_wife_line(info.alternative_judge, alternative_judge_wifescore) ]

\* fn generate_score_comparisons_text
generate_score_comparisons_text(score_data, analysis, alternative_judge) ==
  [ j4 |-> analysis.scoring_system_comparison_j4,
    alternative |->
      IF analysis.scoring_system_comparison_alternative = None THEN None
      ELSE Some(<< unwrap_name(alternative_judge),
                   Unwrap(analysis.scoring_system_comparison_alternative) >>),
    mean_offset |-> analysis.mean_offset ]

\* the fields send_score_card adds to the embed for an analysis
analysis_fields(score_data, analysis, alternative_judge) ==
  << [ name |-> "Score comparisons",
       value |-> generate_score_comparisons_text(score_data, analysis, alternative_judge) ],
     [ name |-> "Tap speeds",
       value |-> << analysis.fastest_finger_jackspeed, analysis.fastest_nps >> ],
     [ name |-> "Combos", value |-> analysis.combos ] >>
  \o IF analysis.fun_facts # << >>
     THEN << [ name |-> "Fun facts", value |-> analysis.fun_facts ] >>
     ELSE << >>

\* the embed of send_score_card
card_embed(info, score_data, description, analysis) ==
  [ description |-> description,
    attachment |->
      IF analysis = None THEN None ELSE Some(Unwrap(analysis).replay_graph_path),
    fields |->
      IF analysis = None THEN << >>
      ELSE analysis_fields(score_data, Unwrap(analysis), info.alternative_judge) ]

\* what a score card handler leaves behind when it returns
card_returns(fn, info, at, res, analysis, zero_mean, e) ==
  /\ card_fn' = fn /\ card_info' = Some(info)
  /\ card_at' = at /\ card_result' = res
  /\ replay_analysis' = analysis /\ zero_mean_replay' = zero_mean /\ embed' = e
  /\ UNCHANGED eo_score

\* poise::send_reply(..).await?; Ok(())
card_replies(fn, info, sent, send_call, analysis, zero_mean, e) ==
  IF sent
  THEN card_returns(fn, info, "end", "Ok", analysis, zero_mean, Some(e))
  ELSE card_returns(fn, info, send_call, "Err", analysis, zero_mean, Some(e))

\* do_replay_analysis(..).transpose()? and the rest of send_score_card
card_analysed(info, sent, score_data, description, zero_mean, analysed) ==
  IF analysed = None
  THEN card_replies("send_score_card", info, sent, "send_reply", None, zero_mean,
                    card_embed(info, score_data, description, None))
  ELSE IF Unwrap(analysed)[1] = "Err"
  THEN card_returns("send_score_card", info, "do_replay_analysis", "Err",
                    None, zero_mean, None)
  ELSE card_replies("send_score_card", info, sent, "send_reply",
                    Some(Unwrap(analysed)[2]), zero_mean,
                    card_embed(info, score_data, description, Some(Unwrap(analysed)[2])))

\* the derived replay that do_replay_analysis got from adjust_offset, if it
\* came that far
zero_mean_of(score_data, graph) ==
  IF score_data.replay # None /\ graph = "Some"
  THEN Some(adjust_offset(Unwrap(score_data.replay)).replay_zero_mean)
  ELSE None

\* send_score_card once the score is there
card_for(info, graph, sent, score_data) ==
  card_analysed(info, sent, score_data,
    write_score_card_body(info, score_data,
      alternative_judge_wifescore_of(score_data, info.alternative_judge)),
    zero_mean_of(score_data, graph),
    do_replay_analysis(score_data, info.alternative_judge, graph))

\* pub async fn send_score_card(ctx, info): `graph` is what the replay graph
\* answers, `sent` whether Discord accepts the reply
send_score_card(info, graph, sent) ==
  /\ card_at = "idle"
  /\ UNCHANGED trackerVars
  /\ UNCHANGED eqVars
  /\ UNCHANGED ocrVars
  /\ UNCHANGED npsVars
  /\ UNCHANGED judgeVars
  /\ UNCHANGED lateVars
  /\ IF eo_score = None
     THEN \* ctx.data().v1.score_data(info.scorekey).await?
          card_returns("send_score_card", info, "score_data", "Err", None, None, None)
     ELSE card_for(info, graph, sent, Unwrap(eo_score))


----------------------------------------------------------------------------
(* discord_handler: State::score_card, the handler of the score links and   *)
(* of the revealed screenshots, with its own replay analysis.               *)

\* for hit_seconds in &hit_seconds_lanes { .. } of the closure: the hit
\* seconds of a lane go to find_fastest_note_subset as split_into_lanes
\* returned them
RECURSIVE score_card_lane_loop(_, _, _)
score_card_lane_loop(hit_seconds_lanes, l, max_so_far) ==
  IF l > Len(hit_seconds_lanes) THEN max_so_far
  ELSE score_card_lane_loop(hit_seconds_lanes, l + 1,
         raised_to(find_fastest_note_subset(hit_seconds_lanes[l],
                                            FINGER_WINDOW, FINGER_WINDOW).speed,
                   max_so_far))

\* the `?`s of the rescorings of the closure (the third score comes from the
\* matching scorer, which is unavailable when the naive one is)
score_card_comparison_of(wife2_score, wife3_score) ==
  IF wife2_score = None \/ wife3_score = None THEN None
  ELSE Some([ wife2_score |-> Unwrap(wife2_score),
              wife3_score |-> Unwrap(wife3_score),
              wife3_kang_system_score |-> Unwrap(wife3_score) ])

\* the three rescorings of the closure
score_card_comparison(score_data, replay, judge) ==
  score_card_comparison_of(
    rescore("Wife2", replay, score_data.judgements.hit_mines, hold_drops(score_data), judge),
    rescore("Wife3", replay, score_data.judgements.hit_mines, hold_drops(score_data), judge))

\* the comparison of the closure under the alternative judge, if there is one
score_card_alternative(score_data, alternative_judge, replay) ==
  IF alternative_judge = None THEN Some(None)
  ELSE IF score_card_comparison(score_data, replay, Unwrap(alternative_judge)) = None
  THEN None
  ELSE Some(score_card_comparison(score_data, replay, Unwrap(alternative_judge)))

\* the `?`s of the closure and the ReplayAnalysis it builds
score_card_analysis_from(hit_seconds_lanes, unsorted_hit_seconds, j4, alternative, replay_combos) ==
  IF hit_seconds_lanes = None THEN None
  ELSE IF unsorted_hit_seconds = None THEN None
  ELSE IF j4 = None THEN None
  ELSE IF alternative = None THEN None
  ELSE Some(Ok(
    [ replay_graph_path |-> "replay_graph.png",
      scoring_system_comparison_j4 |-> Unwrap(j4),
      scoring_system_comparison_alternative |-> Unwrap(alternative),
      fastest_finger_jackspeed |->
        score_card_lane_loop(Unwrap(hit_seconds_lanes), 1, Zero),
      fastest_nps |->
        find_fastest_note_subset(sort_unstable(Unwrap(unsorted_hit_seconds)),
                                 TOTAL_WINDOW, TOTAL_WINDOW).speed,
      combos |-> replay_combos ]))

score_card_analysis_of(score_data, alternative_judge, replay) ==
  score_card_analysis_from(split_into_lanes(replay), split_into_notes_and_hits(replay),
                           score_card_comparison(score_data, replay, J4),
                           score_card_alternative(score_data, alternative_judge, replay),
                           combos(replay))

\* the closure do_replay_analysis of State::score_card
score_card_do_replay_analysis(score_data, alternative_judge, graph) ==
  IF score_data.replay = None THEN None
  ELSE IF graph = "None" THEN None
  ELSE IF graph = "Err" THEN Some(Err("ReplayGraphError"))
  ELSE score_card_analysis_of(score_data, alternative_judge, Unwrap(score_data.replay))

\* the embed of State::score_card
score_card_embed(description, analysis) ==
  [ description |-> description,
    attachment |->
      IF analysis = None THEN None ELSE Some(Unwrap(analysis).replay_graph_path),
    fields |->
      IF analysis = None THEN << >>
      ELSE << [ name |-> "Scoring systems comparison",
                value |-> << Unwrap(analysis).scoring_system_comparison_j4,
                             Unwrap(analysis).scoring_system_comparison_alternative >> ],
              [ name |-> "Tap speeds",
                value |-> << Unwrap(analysis).fastest_finger_jackspeed,
                             Unwrap(analysis).fastest_nps >> ],
              [ name |-> "Combos", value |-> Unwrap(analysis).combos ] >> ]

\* do_replay_analysis(&score).transpose()? and the rest of State::score_card
score_card_analysed(info, sent, description, analysed) ==
  IF analysed = None
  THEN card_replies("State::score_card", info, sent, "send_message", None, None,
                    score_card_embed(description, None))
  ELSE IF Unwrap(analysed)[1] = "Err"
  THEN card_returns("State::score_card", info, "do_replay_analysis", "Err",
                    None, None, None)
  ELSE card_replies("State::score_card", info, sent, "send_message",
                    Some(Unwrap(analysed)[2]), None,
                    score_card_embed(description, Some(Unwrap(analysed)[2])))

\* State::score_card once the score is there
score_card_for(info, graph, sent, score_data) ==
  score_card_analysed(info, sent,
    write_score_card_body(info, score_data,
      alternative_judge_wifescore_of(score_data, info.alternative_judge)),
    score_card_do_replay_analysis(score_data, info.alternative_judge, graph))

\* fn score_card(&mut self, ctx, msg, info): `graph` is what the replay graph
\* answers, `sent` whether Discord accepts the message
score_card(info, graph, sent) ==
  /\ card_at = "idle"
  /\ UNCHANGED trackerVars
  /\ UNCHANGED eqVars
  /\ UNCHANGED ocrVars
  /\ UNCHANGED npsVars
  /\ UNCHANGED judgeVars
  /\ UNCHANGED lateVars
  /\ IF eo_score = None
     THEN \* self.v2_session.score_data(&scorekey)?
          card_returns("State::score_card", info, "score_data", "Err", None, None, None)
     ELSE score_card_for(info, graph, sent, Unwrap(eo_score))


----------------------------------------------------------------------------
(* The score card handlers on their own: EO holds one score (or fails), and *)
(* one of the two handlers is called for it.                                *)

\* how many notes the enumerated replays have at most
MaxNotes == 3

NoteSamples ==
  { ReplayNote(0, Hit(0), Some(0), Some("Tap")),
    ReplayNote(1000, Hit(300), Some(2), Some("Tap")),
    ReplayNote(2000, Miss, Some(1), Some("Tap")),
    ReplayNote(3000, Hit(0 - 1000), Some(3), Some("HoldHead")),
    ReplayNote(4000, Hit(100), None, None),
    ReplayNote(5000, Hit(0), Some(2), Some("Mine")) }

\* n taps `gap` apart, note k on lane (k - 1) % lanes, hit `early` before
\* its time on every second note
Taps(n, gap, lanes, early) ==
  [ k \in 1..n |->
      ReplayNote((k - 1) * gap, Hit(IF k % 2 = 0 THEN 0 - early ELSE 0),
                 Some((k - 1) % lanes), Some("Tap")) ]

\* the first two notes of a replay in the other order
swap_first_two(replay) ==
  [ k \in 1..Len(replay) |->
      IF k = 1 THEN replay[2] ELSE IF k = 2 THEN replay[1] ELSE replay[k] ]

\* the notes of a replay in the opposite order
reversed(replay) == [ k \in 1..Len(replay) |-> replay[Len(replay) + 1 - k] ]

\* the replays long enough for the two windows: jacks on one lane, a stream
\* over the four lanes, the two in another note order, jacks that are all hit
\* at the same time, and a stream whose hits overtake each other
\* five hits, a miss, three hits
ComboReplay ==
  [ k \in 1..9 |->
      ReplayNote((k - 1) * 1000, IF k = 6 THEN Miss ELSE Hit(0),
                 Some((k - 1) % 4), Some("Tap")) ]

LongReplays ==
  { ComboReplay,
    Taps(FINGER_WINDOW, 1000, 1, 0),
    swap_first_two(Taps(FINGER_WINDOW, 1000, 1, 0)),
    Taps(FINGER_WINDOW + 1, 0, 1, 0),
    Taps(TOTAL_WINDOW, 500, 4, 0),
    reversed(Taps(TOTAL_WINDOW, 500, 4, 0)),
    Taps(TOTAL_WINDOW + 1, 100, 4, 150) }

ReplaySamples == Lists(NoteSamples, MaxNotes) \cup LongReplays

ScoreData(replay) ==
  [ replay |-> replay, wifescore |-> 9650,
    judgements |-> [ hit_mines |-> 1, let_go_holds |-> 0, missed_holds |-> 1 ] ]

\* what EO can hold for the scorekey: nothing (the request fails), a score
\* without replay, a score with one of the replays
EoScores ==
  { None, Some(ScoreData(None)) } \cup { Some(ScoreData(Some(r))) : r \in ReplaySamples }

ScoreCard(alternative_judge) == [ alternative_judge |-> alternative_judge ]

ScoreCards == { ScoreCard(None), ScoreCard(Some(BuiltinJudge(7))) }

InitCard ==
  /\ trackerInit /\ eqIdle /\ ocrIdle /\ npsIdle /\ judgeIdle /\ lateIdle
  /\ eo_score \in EoScores
  /\ card_info = None /\ replay_analysis = None /\ zero_mean_replay = None
  /\ embed = None /\ card_fn = "idle" /\ card_at = "idle" /\ card_result = "Ok"

NextCard ==
  \/ \E info \in ScoreCards, graph \in GraphOutcomes, sent \in BOOLEAN :
       send_score_card(info, graph, sent)
  \/ \E info \in ScoreCards, graph \in GraphOutcomes, sent \in BOOLEAN :
       score_card(info, graph, sent)

SpecCard == InitCard /\ [][NextCard]_vars

----------------------------------------------------------------------------
(* Properties of the score card handlers, checked under SpecCard.           *)

\* C12: for a score without replay, send_score_card hands a card to the send
\* call that has no analysis field (score comparisons, tap speeds, combos,
\* fun facts), no attachment and no wife line of the alternative judge, and
\* it returns Ok unless the send call itself failed.
C12_NoReplayCardStillSent ==
  ( /\ card_fn = "send_score_card"
    /\ eo_score # None
    /\ Unwrap(eo_score).replay = None ) =>
    /\ replay_analysis = None
    /\ embed # None
    /\ Unwrap(embed).fields = << >>
    /\ Unwrap(embed).attachment = None
    /\ Unwrap(embed).description.alternative_wife_line = None
    /\ card_at \in { "send_reply", "end" }
    /\ (card_at = "end" => card_result = "Ok")
    /\ (card_result = "Err" => card_at = "send_reply")

\* a card for a score without replay was sent although an alternative judge
\* was asked for
C12_Witness ==
  /\ card_fn = "send_score_card" /\ card_at = "end" /\ card_result = "Ok"
  /\ eo_score # None /\ Unwrap(eo_score).replay = None
  /\ Unwrap(card_info).alternative_judge # None
  /\ embed # None /\ Unwrap(embed).fields = << >>

\* C13: when send_score_card has a replay and its analysis got past the replay
\* graph, an analysis result is produced that holds the combo counts and the
\* mean offset of that replay, whichever other analytic was unavailable.
C13_OtherAnalyticsStillProduced ==
  ( /\ card_fn = "send_score_card"
    /\ zero_mean_replay # None ) =>
    /\ replay_analysis # None
    /\ Unwrap(replay_analysis).combos = combos(Unwrap(Unwrap(eo_score).replay))
    /\ Unwrap(replay_analysis).mean_offset =
         mean_deviation(Unwrap(Unwrap(eo_score).replay))

\* whether the notes a..b of a replay are all hit within the window
in_window_run(notes, window, a, b) ==
  \A k \in a..b : ~ notes[k].hit.miss /\ Abs(notes[k].hit.deviation) <= window

\* the length of the longest run of consecutive notes hit within the window
LongestRun(notes, window) ==
  Greatest({ 0 } \cup
    UNION { { b - a + 1 : b \in { c \in a..Len(notes) : in_window_run(notes, window, a, c) } }
            : a \in 1..Len(notes) })

\* C16: each combo statistic of an analysis is the length of the longest run
\* of consecutive replay notes hit within the statistic's window (5 ms, and
\* the marvelous, perfect and great windows of J4): runs separated by a miss
\* or an out-of-window hit are not added together.
C16_ComboIsLongestRun ==
  replay_analysis # None =>
    /\ Unwrap(replay_analysis).combos.longest_100_combo =
         LongestRun(Unwrap(Unwrap(eo_score).replay), FULL_WINDOW)
    /\ Unwrap(replay_analysis).combos.longest_marv_combo =
         LongestRun(Unwrap(Unwrap(eo_score).replay), J4.marvelous_window)
    /\ Unwrap(replay_analysis).combos.longest_perf_combo =
         LongestRun(Unwrap(Unwrap(eo_score).replay), J4.perfect_window)
    /\ Unwrap(replay_analysis).combos.longest_combo =
         LongestRun(Unwrap(Unwrap(eo_score).replay), J4.great_window)

\* the analysis of the replay of five hits, a miss and three hits reports 5
C16_Witness ==
  /\ replay_analysis # None
  /\ Unwrap(eo_score).replay = Some(ComboReplay)
  /\ Unwrap(replay_analysis).combos.longest_combo = 5
  /\ Unwrap(replay_analysis).combos.longest_100_combo = 5

----------------------------------------------------------------------------
(* discord_handler: extract_judge_from_string. A string is the sequence of  *)
(* its characters.                                                          *)

AsciiDigits == << "0", "1", "2", "3", "4", "5", "6", "7", "8", "9" >>

\* a decimal digit outside ASCII (ARABIC-INDIC DIGIT THREE)
ArabicThree == "U+0663"

\* the class \d of the regex crate: every Unicode decimal digit
is_regex_digit(c) ==
  c = ArabicThree \/ \E n \in 1..Len(AsciiDigits) : AsciiDigits[n] = c

\* str::parse::<u32>().ok() of a single character
parse_u32(c) ==
  IF \E n \in 1..Len(AsciiDigits) : AsciiDigits[n] = c
  THEN Some((CHOOSE n \in 1..Len(AsciiDigits) : AsciiDigits[n] = c) - 1)
  ELSE None

\* JUDGE_REGEX.captures_iter(string): group 1 of the successive
\* non-overlapping matches of [jJ](\d), searched from character i on
RECURSIVE captures_iter(_, _)
captures_iter(string, i) ==
  IF i >= Len(string) THEN << >>
  ELSE IF string[i] \in { "j", "J" } /\ is_regex_digit(string[i + 1])
  THEN << string[i + 1] >> \o captures_iter(string, i + 2)
  ELSE captures_iter(string, i + 1)

\* the match on judge_num: J1 .. J9, None for any other number
judge_numbered(judge_num) ==
  IF judge_num = None THEN None
  ELSE IF Unwrap(judge_num) \in 1..9 THEN Some(BuiltinJudge(Unwrap(judge_num)))
  ELSE None

\* the closure of filter_map: groups[1].parse().ok()?, then the match
judge_of_groups(group) == judge_numbered(parse_u32(group))

\* .filter_map(..).next(): the first capture the closure maps to Some
RECURSIVE filter_map_next(_, _)
filter_map_next(captures, i) ==
  IF i > Len(captures) THEN None
  ELSE IF judge_of_groups(captures[i]) # None THEN judge_of_groups(captures[i])
  ELSE filter_map_next(captures, i + 1)

\* only the first capture is looked at
extract_judge_from_first_capture(string) ==
  IF captures_iter(string, 1) = << >> THEN None
  ELSE judge_of_groups(captures_iter(string, 1)[1])

\* fn extract_judge_from_string(string: &str) -> Option<&etterna::Judge>
extract_judge_from_string(string) == filter_map_next(captures_iter(string, 1), 1)

\* a call of extract_judge_from_string with the string
call_extract_judge_from_string ==
  /\ judge_found = None
  /\ judge_found' = Some(extract_judge_from_string(judge_string))
  /\ UNCHANGED judge_string
  /\ UNCHANGED trackerVars
  /\ UNCHANGED eqVars
  /\ UNCHANGED ocrVars
  /\ UNCHANGED cardVars
  /\ UNCHANGED npsVars
  /\ UNCHANGED lateVars

\* longest string explored
MaxChars == 4

JudgeChars == { "j", "J", "0", "4", "9", "x", ArabicThree }

InitJudge ==
  /\ trackerInit /\ eqIdle /\ ocrIdle /\ cardIdle /\ npsIdle /\ lateIdle
  /\ judge_string \in Lists(JudgeChars, MaxChars)
  /\ judge_found = None

NextJudge == call_extract_judge_from_string

SpecJudge == InitJudge /\ [][NextJudge]_vars

\* the places of a string where 'j' or 'J' is immediately followed by one of
\* the digits 1 .. 9
JudgePlaces(string) ==
  { i \in 1..(Len(string) - 1) :
      /\ string[i] \in { "j", "J" }
      /\ \E n \in 1..9 : string[i + 1] = AsciiDigits[n + 1] }

\* the number a digit 1 .. 9 stands for
DigitValue(c) == CHOOSE n \in 1..9 : AsciiDigits[n + 1] = c

\* the least element of a non-empty finite set of integers
Least(S) == CHOOSE c \in S : \A k \in S : c <= k

\* C17: extract_judge_from_string returns the built-in judge N of the first
\* place where 'j' or 'J' is immediately followed by a digit N in 1..9, and
\* none when the string has no such place.
C17_FirstJudgeInString ==
  judge_found # None =>
    Unwrap(judge_found) =
      IF JudgePlaces(judge_string) = {} THEN None
      ELSE Some(BuiltinJudge(DigitValue(judge_string[Least(JudgePlaces(judge_string)) + 1])))

\* "j0J4" names J4: the match on j0 is passed over
C17_Witness ==
  /\ judge_string = << "j", "0", "J", "4" >>
  /\ judge_found = Some(Some(BuiltinJudge(4)))

----------------------------------------------------------------------------
(* Further properties of the score card handlers, checked under SpecCard.   *)

\* the derived replay keeps the note and lowers the deviation of a hit by the
\* mean offset of the original replay
ShiftedBy(original_note, derived_note, mean_ticks) ==
  /\ derived_note.time = original_note.time
  /\ derived_note.lane = original_note.lane
  /\ derived_note.note_type = original_note.note_type
  /\ derived_note.hit.miss = original_note.hit.miss
  /\ derived_note.hit.deviation =
       IF original_note.hit.miss THEN original_note.hit.deviation
       ELSE original_note.hit.deviation - mean_ticks

ZeroMeanOf(original, derived) ==
  /\ Len(derived) = Len(original)
  /\ \A i \in 1..Len(original) :
       ShiftedBy(original[i], derived[i], mean_deviation(original).ticks)

\* C18: the replay adjust_offset derives has the notes of the original in the
\* same order, every hit's deviation lowered by the mean offset, every miss,
\* lane and note type as they were; and the score with the original replay
\* is never changed.
C18_AdjustOffsetDerivesCopy ==
  /\ [](zero_mean_replay # None =>
          ZeroMeanOf(Unwrap(Unwrap(eo_score).replay), Unwrap(zero_mean_replay)))
  /\ [][eo_score' = eo_score]_vars

\* a replay with a miss and a hit off the mean was adjusted
C18_Witness ==
  /\ zero_mean_replay # None
  /\ Unwrap(zero_mean_replay) # Unwrap(Unwrap(eo_score).replay)
  /\ \E i \in 1..Len(Unwrap(zero_mean_replay)) : Unwrap(zero_mean_replay)[i].hit.miss

\* a finite hand score that does not exceed 1
ScoreUpToOne(a) == a.d > 0 /\ a.n <= a.d

\* the miss proportion 1 - a is at least twice the miss proportion 1 - b
MissesTwice(a, b) == (a.d - a.n) * b.d >= 2 * (b.d - b.n) * a.d

\* one hand's miss proportion is at least twice the other's
Imbalanced(hands) ==
  /\ ScoreUpToOne(hands.left_wifescore) /\ ScoreUpToOne(hands.right_wifescore)
  /\ \/ MissesTwice(hands.left_wifescore, hands.right_wifescore)
     \/ MissesTwice(hands.right_wifescore, hands.left_wifescore)

\* C19: whenever the two hand scores of an analysed replay do not exceed 1
\* and one hand's miss proportion is at least twice the other's (a miss
\* proportion of 0 included), the analysis holds a hand-imbalance fun fact.
C19_ImbalanceFactProduced ==
  ( /\ card_fn = "send_score_card"
    /\ replay_analysis # None
    /\ Imbalanced(calculate_hand_wifescores(Unwrap(Unwrap(eo_score).replay))) ) =>
    Unwrap(replay_analysis).fun_facts # << >>

\* the fastest rate of `window_size` hits among the hit seconds once they are
\* sorted ascending
RateOverSorted(unsorted_hit_seconds, window_size) ==
  find_fastest_note_subset(sort_unstable(unsorted_hit_seconds),
                           window_size, window_size).speed

\* the highest of a finite non-empty set of finite rates
Highest(rates) == CHOOSE r \in rates : \A q \in rates : q_ge(r, q)

\* C20: in every analysis, of either handler, the per-finger figure is the
\* highest window-20 rate over the ascending hit times of each lane and the
\* overall figure is the window-100 rate over the ascending hit times of the
\* replay, whatever the order of the replay's notes.
C20_RatesOverSortedHitTimes ==
  replay_analysis # None =>
    /\ Unwrap(replay_analysis).fastest_finger_jackspeed =
         Highest({ RateOverSorted(hit_seconds_of(Unwrap(Unwrap(eo_score).replay), { l }),
                                  FINGER_WINDOW) : l \in 0..3 })
    /\ Unwrap(replay_analysis).fastest_nps =
         RateOverSorted(hit_seconds_of(Unwrap(Unwrap(eo_score).replay), 0..3),
                        TOTAL_WINDOW)

----------------------------------------------------------------------------
(* Property of State::message, checked under SpecOcr.                       *)

\* the failures of the screenshot check that are local to the screenshot
LocalScreenshotFailures ==
  { "download", "read_image", "get_eo_username", "user_details", "user_scores" }

\* C14: when the screenshot check of a message fails with an image download
\* or read failure or with a username or score-history lookup failure,
\* State::message still comes to the message's score links, song links and
\* '+' command; the failure of the OCR engine initialisation is returned as
\* an error.
C14_ScreenshotFailureNotFatal ==
  [][ ( /\ returned_at # "idle" /\ returned_at' = "idle"
        /\ result = "Err" ) =>
        /\ returned_at = "tesseract_init" =>
             Unwrap(message_returned').result = "Err"
        /\ returned_at \in LocalScreenshotFailures =>
             Unwrap(message_returned').rest_handled
    ]_vars

----------------------------------------------------------------------------
(* The tap speed functions on their own: find_fastest_note_subset on a list *)
(* of ascending seconds, max_finger_nps and fastest_nps on a replay.        *)

\* a call of etterna::find_fastest_note_subset(&seconds, n, n)
call_find_fastest_note_subset(window_size) ==
  /\ nps_fn = "idle"
  /\ nps_fn' = "find_fastest_note_subset"
  /\ nps_window' = window_size
  /\ nps_result' = Some(find_fastest_note_subset(nps_seconds, window_size, window_size).speed)
  /\ UNCHANGED << nps_seconds, nps_replay >>
  /\ UNCHANGED trackerVars
  /\ UNCHANGED eqVars
  /\ UNCHANGED ocrVars
  /\ UNCHANGED cardVars
  /\ UNCHANGED judgeVars
  /\ UNCHANGED lateVars

\* a call of max_finger_nps(replay)
call_max_finger_nps ==
  /\ nps_fn = "idle"
  /\ nps_fn' = "max_finger_nps"
  /\ nps_window' = FINGER_WINDOW
  /\ nps_result' = max_finger_nps(nps_replay)
  /\ UNCHANGED << nps_seconds, nps_replay >>
  /\ UNCHANGED trackerVars
  /\ UNCHANGED eqVars
  /\ UNCHANGED ocrVars
  /\ UNCHANGED cardVars
  /\ UNCHANGED judgeVars
  /\ UNCHANGED lateVars

\* a call of fastest_nps(replay)
call_fastest_nps ==
  /\ nps_fn = "idle"
  /\ nps_fn' = "fastest_nps"
  /\ nps_window' = TOTAL_WINDOW
  /\ nps_result' = fastest_nps(nps_replay)
  /\ UNCHANGED << nps_seconds, nps_replay >>
  /\ UNCHANGED trackerVars
  /\ UNCHANGED eqVars
  /\ UNCHANGED ocrVars
  /\ UNCHANGED cardVars
  /\ UNCHANGED judgeVars
  /\ UNCHANGED lateVars

\* longest enumerated list of seconds
MaxSeconds == 4

SecondValues == { 0, 1000, 1500, 3000 }

\* ten seconds 0.1 s apart
TenSeconds == [ k \in 1..10 |-> (k - 1) * 1000 ]

\* the ascending lists of seconds the search is given
SecondsSamples ==
  { secs \in Lists(SecondValues, MaxSeconds) :
      \A i \in 1..(Len(secs) - 1) : secs[i] <= secs[i + 1] }
  \cup { TenSeconds }

WindowSizes == { 2, 3, 10 }

InitNps ==
  /\ trackerInit /\ eqIdle /\ ocrIdle /\ cardIdle /\ judgeIdle /\ lateIdle
  /\ \/ nps_seconds \in SecondsSamples /\ nps_replay = << >>
     \/ nps_seconds = << >> /\ nps_replay \in ReplaySamples
  /\ nps_fn = "idle" /\ nps_window = 0 /\ nps_result = None

NextNps ==
  \/ \E window_size \in WindowSizes : call_find_fastest_note_subset(window_size)
  \/ call_max_finger_nps
  \/ call_fastest_nps

SpecNps == InitNps /\ [][NextNps]_vars

\* the rates (window_size - 1) / (last - first) of the windows of exactly
\* window_size consecutive seconds that span some time
WindowRates(secs, window_size) ==
  { Q((window_size - 1) * 10000, secs[i + window_size - 1] - secs[i]) :
      i \in { k \in 1..(Len(secs) - window_size + 1) :
                secs[k + window_size - 1] > secs[k] } }

\* the highest of these rates, 0 when there is none
MaxWindowRate(secs, window_size) ==
  IF WindowRates(secs, window_size) = {} THEN Zero
  ELSE Highest(WindowRates(secs, window_size))

\* how many hits a replay has on the lanes
HitCount(replay, lanes) == Len(hit_seconds_of(replay, lanes))

\* C15: find_fastest_note_subset on ascending seconds returns the highest
\* rate (window_size - 1) / (last - first) over the windows of exactly
\* window_size consecutive seconds, and 0 when there are fewer seconds than
\* that or no window spans any time; so max_finger_nps is 0 when no lane has
\* 20 hits and fastest_nps is 0 when the replay has fewer than 100 hits.
C15_FastestWindowRate ==
  /\ nps_fn = "find_fastest_note_subset" =>
       Unwrap(nps_result) = MaxWindowRate(nps_seconds, nps_window)
  /\ ( /\ nps_fn = "max_finger_nps" /\ nps_result # None
       /\ \A l \in 0..3 : HitCount(nps_replay, { l }) < 20 ) =>
       nps_result = Some(Zero)
  /\ ( /\ nps_fn = "fastest_nps" /\ nps_result # None
       /\ HitCount(nps_replay, 0..3) < 100 ) =>
       nps_result = Some(Zero)

\* ten seconds 0.1 s apart searched with a window of 10 give 10 notes a second
C15_Witness ==
  /\ nps_fn = "find_fastest_note_subset"
  /\ nps_seconds = TenSeconds /\ nps_window = 10
  /\ nps_result = Some(Q(10, 1))

----------------------------------------------------------------------------
(* The hand balance functions on their own: a replay is drawn, and          *)
(* replay_note_wife_points is called for one of its notes, or               *)
(* calculate_hand_wifescores for all of it.                                 *)

call_replay_note_wife_points(i) ==
  /\ hand_fn' = "replay_note_wife_points"
  /\ hand_note' = i
  /\ hand_result' = replay_note_wife_points(hand_replay[i])
  /\ UNCHANGED hand_replay
  /\ UNCHANGED << reactVars, patternVars >>
  /\ UNCHANGED << trackerVars, eqVars, ocrVars, cardVars, npsVars, judgeVars >>

call_calculate_hand_wifescores ==
  /\ hand_fn' = "calculate_hand_wifescores"
  /\ hand_note' = 0
  /\ hand_result' = calculate_hand_wifescores(hand_replay)
  /\ UNCHANGED hand_replay
  /\ UNCHANGED << reactVars, patternVars >>
  /\ UNCHANGED << trackerVars, eqVars, ocrVars, cardVars, npsVars, judgeVars >>

\* how many notes the enumerated replays of the hand functions have at most
MaxHandNotes == 2

\* a note of every type, hit, missed and hit far off, on the lanes of both
\* hands, on a fifth lane and without lane
HandNoteSamples ==
  { ReplayNote(0, Hit(0), Some(0), Some("Tap")),
    ReplayNote(0, Miss, Some(1), Some("Tap")),
    ReplayNote(0, Hit(300), Some(2), Some("HoldHead")),
    ReplayNote(0, Hit(0 - 1000), Some(3), Some("Lift")),
    ReplayNote(0, Hit(100), Some(4), None),
    ReplayNote(0, Hit(0), None, Some("Tap")),
    ReplayNote(0, Miss, Some(0), Some("HoldTail")),
    ReplayNote(0, Hit(0), Some(2), Some("HoldTail")),
    ReplayNote(0, Hit(2000), Some(1), Some("HoldTail")),
    ReplayNote(0, Hit(0), Some(3), Some("Mine")),
    ReplayNote(0, Miss, Some(1), Some("Mine")),
    ReplayNote(0, Hit(0), Some(0), Some("Keysound")),
    ReplayNote(0, Miss, Some(2), Some("Fake")) }

\* both hands, a fifth lane and no lane in one replay
MixedHands ==
  << ReplayNote(0, Hit(0), Some(0), Some("Tap")),
     ReplayNote(0, Hit(300), Some(2), Some("HoldHead")),
     ReplayNote(0, Miss, Some(4), None),
     ReplayNote(0, Miss, None, Some("Tap")),
     ReplayNote(0, Miss, Some(1), Some("HoldTail")),
     ReplayNote(0, Hit(0), Some(3), Some("Mine")),
     ReplayNote(0, Hit(500), Some(1), Some("Lift")) >>

InitHand ==
  /\ trackerInit /\ eqIdle /\ ocrIdle /\ cardIdle /\ npsIdle /\ judgeIdle
  /\ reactIdle /\ patternIdle
  /\ hand_replay \in Lists(HandNoteSamples, MaxHandNotes) \cup { MixedHands }
  /\ hand_fn = "idle" /\ hand_note = 0 /\ hand_result = None

NextHand ==
  \/ \E i \in 1..Len(hand_replay) : call_replay_note_wife_points(i)
  \/ call_calculate_hand_wifescores

SpecHand == InitHand /\ [][NextHand]_vars

\* C21: replay_note_wife_points counts a note as 1 exactly when its type is
\* tap, hold head, lift or absent; a hold tail counts 0 notes and costs the
\* hold drop weight only if it is a miss under J4; a mine counts 0 notes and
\* costs the mine hit weight only if it was hit; keysound and fake notes give
\* 0 points and 0 notes
C21_PerNoteWeighting ==
  hand_fn = "replay_note_wife_points" =>
    /\ hand_result.num_notes \in { 0, 1 }
    /\ hand_result.num_notes = 1 <=>
         hand_replay[hand_note].note_type
           \in { None, Some("Tap"), Some("HoldHead"), Some("Lift") }
    /\ hand_replay[hand_note].note_type = Some("HoldTail") =>
         hand_result.wife_points =
           IF hand_replay[hand_note].hit.miss
              \/ Abs(hand_replay[hand_note].hit.deviation) > 2 * J4.great_window
           THEN HOLD_DROP_WEIGHT ELSE 0
    /\ hand_replay[hand_note].note_type = Some("Mine") =>
         hand_result.wife_points =
           IF hand_replay[hand_note].hit.miss THEN 0 ELSE MINE_HIT_WEIGHT
    /\ hand_replay[hand_note].note_type \in { Some("Keysound"), Some("Fake") } =>
         hand_result.wife_points = 0

\* a hold tail that was hit too far off has been weighted: no note, and the
\* hold drop weight
C21_Witness ==
  /\ hand_fn = "replay_note_wife_points"
  /\ hand_replay[hand_note].note_type = Some("HoldTail")
  /\ ~ hand_replay[hand_note].hit.miss
  /\ hand_result = [ wife_points |-> HOLD_DROP_WEIGHT, num_notes |-> 0 ]

\* the notes of a replay that lie on one of the lanes, by their index
OnLanes(replay, lanes) ==
  { i \in 1..Len(replay) : \E l \in lanes : replay[i].lane = Some(l) }

\* the sum of f over a finite set of indices
RECURSIVE SumOver(_, _)
SumOver(f, S) ==
  IF S = {} THEN 0
  ELSE LET i == CHOOSE j \in S : TRUE IN f[i] + SumOver(f, S \ { i })

\* the summed points of the notes on the lanes over their summed note count
PointsPerNote(replay, lanes) ==
  Q(SumOver([ i \in 1..Len(replay) |-> replay_note_wife_points(replay[i]).wife_points ],
            OnLanes(replay, lanes)),
    1000 * SumOver([ i \in 1..Len(replay) |-> replay_note_wife_points(replay[i]).num_notes ],
                   OnLanes(replay, lanes)))

\* C22: the left hand's score is the summed points of the notes in lane 0 or
\* 1 over their summed note count, the right hand's that of the notes in lane
\* 2 or 3; a note of another lane or without lane counts for neither
C22_HandsPartitionedByLane ==
  hand_fn = "calculate_hand_wifescores" =>
    /\ hand_result.left_wifescore = PointsPerNote(hand_replay, { 0, 1 })
    /\ hand_result.right_wifescore = PointsPerNote(hand_replay, { 2, 3 })

\* both hands were scored, differently, for a replay that also has a missed
\* note on a fifth lane and one without lane
C22_Witness ==
  /\ hand_fn = "calculate_hand_wifescores"
  /\ OnLanes(hand_replay, { 0, 1 }) # {} /\ OnLanes(hand_replay, { 2, 3 }) # {}
  /\ \E i \in 1..Len(hand_replay) :
       hand_replay[i].lane = Some(4) /\ hand_replay[i].hit.miss
  /\ \E i \in 1..Len(hand_replay) :
       hand_replay[i].lane = None /\ hand_replay[i].hit.miss
  /\ hand_result.left_wifescore.d > 0 /\ hand_result.right_wifescore.d > 0
  /\ hand_result.left_wifescore # hand_result.right_wifescore

----------------------------------------------------------------------------
(* State::reaction_add: the reaction events of Discord, the bot's own       *)
(* among them, on messages that check_potential_score_screenshot registers. *)

\* State::user_id, the user id of the bot
bot_user_id == 4

\* the reactions Discord reports: those of the users and of the bot
ReactionEvents == [ message_id : MessageIds, user_id : DiscordUsers \cup { bot_user_id } ]

\* the test of reaction_add with no reaction taken for the bot's
is_own_reaction_never(reaction) == FALSE

\* if reaction.user_id == self.user_id { return Ok(()); }
is_own_reaction(reaction) == reaction.user_id = bot_user_id

\* reaction.message(&ctx.http)? and self.score_card(..)?: the Result of the
\* two, and the record of the attempt
show_score_card(message_id, fetched, printed) ==
  /\ card_attempts' = [ card_attempts EXCEPT ![message_id] = @ + 1 ]
  /\ IF fetched /\ printed
     THEN reaction_result' = "Ok" /\ UNCHANGED card_failed
     ELSE reaction_result' = "Err" /\ card_failed' = card_failed \cup { message_id }

\* State::reaction_add; `fetched` and `printed` tell whether Discord returns
\* the message and whether score_card gets through
reaction_add(reaction, fetched, printed) ==
  /\ UNCHANGED << eqVars, ocrVars, cardVars, npsVars, judgeVars >>
  /\ UNCHANGED << handVars, patternVars >>
  /\ IF is_own_reaction(reaction)
     THEN /\ bot_reactions' = bot_reactions \cup { reaction.message_id }
          /\ reaction_result' = "Ok"
          /\ UNCHANGED << trackerVars, card_attempts, card_failed >>
     ELSE /\ manager_add_reaction(reaction)
          /\ UNCHANGED bot_reactions
          /\ IF ret' # None
             THEN show_score_card(reaction.message_id, fetched, printed)
             ELSE /\ reaction_result' = "Ok"
                  /\ UNCHANGED << card_attempts, card_failed >>

\* the scorekey takes no part in what reaction_add does: one per message
ScorekeyOf(m) == IF m = 1 THEN "Sa" ELSE "Sb"

\* how many candidates are registered while reactions are handled
MaxReactCandidates == 1

NextReact ==
  \/ \E m \in MessageIds, a \in DiscordUsers, u \in EoUserIds :
       /\ Len(candidates) < MaxReactCandidates
       /\ add_candidate(m, a, ScorekeyOf(m), u)
  \/ \E r \in ReactionEvents : \E fetched, printed \in BOOLEAN :
       reaction_add(r, fetched, printed)

SpecReact == Init /\ [][NextReact]_vars

\* C23: a reaction of the bot never reaches the tracker: no candidate has the
\* bot among its reactors, and a message is revealed only if a user other than
\* its author and the bot reacted to it (the bot's magnifier and the author's
\* reaction alone reveal nothing)
C23_BotReactionsNeverCount ==
  /\ \A i \in 1..Len(candidates) : bot_user_id \notin candidates[i].reactors
  /\ \A m \in MessageIds :
       /\ bot_user_id \notin delivered[m]
       /\ reveals[m] >= 1 =>
            \E u \in first_candidate(m).reactors :
              u \notin { bot_user_id, first_candidate(m).author_id }

\* the bot and the author have reacted to a registered message, and it is
\* pending with the author as its only reactor
C23_Witness ==
  \E m \in bot_reactions :
    /\ registered(m)
    /\ first_candidate(m).reactors = { first_candidate(m).author_id }
    /\ ~ first_candidate(m).score_card_has_been_printed
    /\ reveals[m] = 0 /\ card_attempts[m] = 0

\* C25: when reaction_add goes on to show the score card of a message, the
\* candidate is already marked printed, whether the card gets through or not;
\* once showing it failed, the candidate stays printed and no later reaction
\* on the message leads to another attempt
C25_FailedCardNeverRetried ==
  [][ \A m \in MessageIds :
        /\ card_attempts'[m] > card_attempts[m] =>
             /\ ~ first_candidate(m).score_card_has_been_printed
             /\ first_candidate(m)'.score_card_has_been_printed
        /\ m \in card_failed =>
             /\ m \in card_failed'
             /\ first_candidate(m)'.score_card_has_been_printed
             /\ card_attempts'[m] = card_attempts[m]
             /\ card_attempts[m] = 1
    ]_vars

\* showing the card of a message failed, and afterwards a user who had not
\* reacted before reacted to it: reaction_add returned Ok without an attempt
C25_Witness ==
  \E m \in card_failed :
    /\ reaction_result = "Ok"
    /\ card_attempts[m] = 1
    /\ first_candidate(m).score_card_has_been_printed
    /\ delivered[m] # first_candidate(m).reactors

----------------------------------------------------------------------------
(* Registration and isolation of the candidates, checked under Spec.        *)

\* C24: a reaction on a message that is not registered yet changes nothing
\* and is not remembered; the candidate that add_candidate appends has no
\* reactors and is unrevealed; so every reactor of a candidate reacted while
\* its message was registered, and a reveal has the author and another user
\* among those
C24_EarlyReactionsDiscarded ==
  [][ /\ \A r \in Reactions :
           (add_reaction(r) /\ ~ registered(r.message_id)) =>
             /\ candidates' = candidates
             /\ delivered' = delivered
             /\ ret' = None
      /\ Len(candidates') > Len(candidates) =>
           /\ candidates'[Len(candidates')].reactors = {}
           /\ ~ candidates'[Len(candidates')].score_card_has_been_printed
      /\ \A i \in 1..Len(candidates') :
           candidates'[i].reactors \subseteq delivered'[candidates'[i].message_id]
      /\ \A m \in MessageIds :
           reveals'[m] > reveals[m] =>
             /\ first_candidate(m).author_id \in delivered'[m]
             /\ Cardinality(delivered'[m]) >= 2
    ]_vars

\* the latest reaction found no candidate, both messages were registered
\* since (one of them after that reaction), and no candidate has a reactor
C24_Witness ==
  /\ ignored
  /\ \A m \in MessageIds : registered(m) /\ delivered[m] = {} /\ reveals[m] = 0
  /\ \A i \in 1..Len(candidates) : candidates[i].reactors = {}

\* what add_candidate was given for a candidate
identity(candidate) ==
  << candidate.message_id, candidate.author_id, candidate.scorekey, candidate.user_id >>

\* C26: no step removes a candidate or changes the message id, author id,
\* scorekey or user id of one, so the list never gets shorter; add_reaction
\* for a message changes at most the first candidate with that message id and
\* leaves every other candidate as it was
C26_CandidatesIsolatedNeverEvicted ==
  [][ /\ Len(candidates') >= Len(candidates)
      /\ \A i \in 1..Len(candidates) :
           identity(candidates'[i]) = identity(candidates[i])
      /\ \A r \in Reactions :
           add_reaction(r) =>
             /\ Len(candidates') = Len(candidates)
             /\ \A i \in 1..Len(candidates) :
                  i # find_candidate(candidates, r.message_id) =>
                    candidates'[i] = candidates[i]
    ]_vars

\* two candidates of one message: the first was revealed by its reactors, the
\* second is as it was registered
C26_Witness ==
  /\ Len(candidates) = 2
  /\ candidates[1].message_id = candidates[2].message_id
  /\ candidates[1].score_card_has_been_printed
  /\ Cardinality(candidates[1].reactors) >= 2
  /\ candidates[2] = Candidate(candidates[2].message_id, candidates[2].author_id,
                               candidates[2].scorekey, candidates[2].user_id)

----------------------------------------------------------------------------
(* Registration by the screenshot handler, checked under SpecOcr.           *)

\* C27: a step registers a candidate only for a message of the score channel
\* with an image whose poster does not lack the OCR role, after OCR returned
\* readings and a recent score scored above the threshold against them; the
\* candidate has the message's id and author, the scorekey of such a score
\* and the user id whose recent scores were searched, and the handler has
\* added its reaction and returns Ok
C27_RegisteredOnlyWhenMatched ==
  [][ candidates' # candidates =>
        /\ candidates' = Append(candidates, candidates'[Len(candidates')])
        /\ IsSome(msg')
        /\ Unwrap(msg').in_score_channel
        /\ Unwrap(msg').has_image
        /\ ~ Unwrap(msg').lacks_ocr_role
        /\ recognized' # << >>
        /\ IsSome(user_id')
        /\ \E j \in 1..Len(recent_scores') :
             /\ BestScore(recognized', recent_scores'[j]) > 8
             /\ candidates'[Len(candidates')] =
                  Candidate(Unwrap(msg').id, Unwrap(msg').author,
                            recent_scores'[j].scorekey, Unwrap(user_id'))
        /\ Unwrap(msg').id \in magnified'
        /\ returned_at' = "end" /\ result' = "Ok"
    ]_vars

\* a candidate was registered with the scorekey of the second recent score,
\* the first one not having scored above the threshold
C27_Witness ==
  /\ returned_at = "end"
  /\ Len(candidates) = 1
  /\ Len(recent_scores) = 2
  /\ BestScore(recognized, recent_scores[1]) <= 8
  /\ candidates[1].scorekey = recent_scores[2].scorekey
  /\ candidates[1].user_id = Unwrap(user_id)
  /\ candidates[1].message_id = Unwrap(msg).id

----------------------------------------------------------------------------
(* More properties of the score card, checked under SpecCard.               *)

\* C28: the four combo counts of an analysis are nested, 100% <= marvelous
\* <= perfect <= longest combo, and the longest combo is at most the number
\* of notes of the replay
C28_CombosNested ==
  replay_analysis # None =>
    /\ 0 <= Unwrap(replay_analysis).combos.longest_100_combo
    /\ Unwrap(replay_analysis).combos.longest_100_combo
         <= Unwrap(replay_analysis).combos.longest_marv_combo
    /\ Unwrap(replay_analysis).combos.longest_marv_combo
         <= Unwrap(replay_analysis).combos.longest_perf_combo
    /\ Unwrap(replay_analysis).combos.longest_perf_combo
         <= Unwrap(replay_analysis).combos.longest_combo
    /\ Unwrap(replay_analysis).combos.longest_combo
         <= Len(Unwrap(Unwrap(eo_score).replay))

\* the analysis of a replay of three notes, one of them within 5 ms, two
\* within the perfect window and one outside every window
C28_Witness ==
  /\ replay_analysis # None
  /\ Len(Unwrap(Unwrap(eo_score).replay)) = 3
  /\ Unwrap(replay_analysis).combos.longest_100_combo = 1
  /\ Unwrap(replay_analysis).combos.longest_marv_combo = 1
  /\ Unwrap(replay_analysis).combos.longest_perf_combo = 2
  /\ Unwrap(replay_analysis).combos.longest_combo = 2

\* the value of the score comparisons field of an embed, if it has the field
ComparisonsText(e) ==
  IF e.fields # << >> /\ e.fields[1].name = "Score comparisons"
  THEN Some(e.fields[1].value) ELSE None

\* C29: no unwrap of the alternative judge fails while a card is rendered:
\* the description has the line of the alternative judge only if the card was
\* given such a judge and the score has a replay, and an analysis has the
\* comparison under the alternative judge only if the card was given one; the
\* rendered texts then carry that judge's name
C29_AlternativeJudgeUnwrapsSafe ==
  /\ embed # None =>
       /\ Unwrap(embed).description.alternative_wife_line # None =>
            /\ Unwrap(card_info).alternative_judge # None
            /\ Unwrap(eo_score).replay # None
            /\ Unwrap(Unwrap(embed).description.alternative_wife_line)[1]
                 = Unwrap(Unwrap(card_info).alternative_judge).name
       /\ ( /\ ComparisonsText(Unwrap(embed)) # None
            /\ Unwrap(ComparisonsText(Unwrap(embed))).alternative # None ) =>
              /\ Unwrap(card_info).alternative_judge # None
              /\ Unwrap(Unwrap(ComparisonsText(Unwrap(embed))).alternative)[1]
                   = Unwrap(Unwrap(card_info).alternative_judge).name
  /\ ( /\ replay_analysis # None
       /\ Unwrap(replay_analysis).scoring_system_comparison_alternative # None ) =>
         Unwrap(card_info).alternative_judge # None

\* send_score_card rendered the wifescore and the comparison under the
\* alternative judge of its card
C29_Witness ==
  /\ card_fn = "send_score_card" /\ embed # None /\ replay_analysis # None
  /\ Unwrap(card_info).alternative_judge # None
  /\ Unwrap(embed).description.alternative_wife_line # None
  /\ Unwrap(ComparisonsText(Unwrap(embed))).alternative # None

----------------------------------------------------------------------------
(* pattern_visualize: parse_pattern. A &str is the sequence of its UTF-8    *)
(* bytes; the loop of parse_pattern is taken one iteration at a time.       *)

\* str::is_char_boundary: the start, the end, or an index whose byte is no
\* continuation byte (0x80..0xBF)
is_char_boundary(string, i) ==
  \/ i = 0
  \/ i = Len(string)
  \/ i < Len(string) /\ (string[i + 1] < 128 \/ string[i + 1] > 191)

\* every character taken for one byte wide
first_char_width_one(string) == 1

\* fn first_char_width: for i in 1.. { if string.is_char_boundary(i) { return i; } }
first_char_width(string) ==
  CHOOSE i \in 1..Len(string) :
    is_char_boundary(string, i) /\ \A j \in 1..(i - 1) : ~ is_char_boundary(string, j)

\* c >= b'1' && c <= b'9'
is_lane_digit(c) == c >= 49 /\ c <= 57

\* string.find(']'): the byte index of the first `]`, if there is one
find_bracket(string) ==
  IF \A i \in 1..Len(string) : string[i] # 93 THEN None
  ELSE Some((CHOOSE i \in 1..Len(string) :
               string[i] = 93 /\ \A j \in 1..(i - 1) : string[j] # 93) - 1)

\* for c in string[1..end].bytes() { if .. { row.push((c - b'1') as u32); } }
RECURSIVE row_loop(_, _)
row_loop(bytes, row) ==
  IF bytes = << >> THEN row
  ELSE row_loop(Tail(bytes),
                IF is_lane_digit(Head(bytes)) THEN Append(row, Head(bytes) - 49) ELSE row)

\* string = &string[n..]: the slice panics when n is no char boundary
pop_front(string, n) ==
  IF n <= Len(string) /\ is_char_boundary(string, n)
  THEN /\ pattern_string' = SubSeq(string, n + 1, Len(string))
       /\ pattern_at' = "loop"
  ELSE /\ pattern_string' = string
       /\ pattern_at' = "panic"

patternFrame ==
  /\ UNCHANGED pattern_input
  /\ UNCHANGED << handVars, reactVars >>
  /\ UNCHANGED << trackerVars, eqVars, ocrVars, cardVars, npsVars, judgeVars >>

\* an iteration of the loop on a string that starts with `[`
parse_pattern_bracket ==
  /\ pattern_at = "loop" /\ pattern_string # << >> /\ pattern_string[1] = 91
  /\ patternFrame
  /\ IF find_bracket(pattern_string) = None
     THEN \* .ok_or(StringError("Unterminated ["))?
          /\ pattern_at' = "Err"
          /\ UNCHANGED << pattern_string, pattern_rows >>
     ELSE /\ pattern_rows' =
               Append(pattern_rows,
                      row_loop(SubSeq(pattern_string, 2, Unwrap(find_bracket(pattern_string))),
                               << >>))
          /\ pop_front(pattern_string, Unwrap(find_bracket(pattern_string)) + 1)

\* an iteration of the loop on a string that starts with another character
parse_pattern_char ==
  /\ pattern_at = "loop" /\ pattern_string # << >> /\ pattern_string[1] # 91
  /\ patternFrame
  /\ pattern_rows' =
       IF is_lane_digit(pattern_string[1])
       THEN Append(pattern_rows, << pattern_string[1] - 49 >>)
       ELSE pattern_rows
  /\ pop_front(pattern_string, first_char_width(pattern_string))

\* while !string.is_empty() is over: Ok(Pattern { rows })
parse_pattern_return ==
  /\ pattern_at = "loop" /\ pattern_string = << >>
  /\ patternFrame
  /\ pattern_at' = "Ok"
  /\ UNCHANGED << pattern_string, pattern_rows >>

\* how many characters the enumerated pattern strings have at most
MaxPatternChars == 3

\* the characters of the pattern strings: [ ] 0 1 9 a, and two characters of
\* two and of three bytes
PatternChars ==
  { << 91 >>, << 93 >>, << 48 >>, << 49 >>, << 57 >>, << 97 >>,
    << 195, 169 >>, << 226, 130, 172 >> }

\* the bytes of a list of characters
RECURSIVE bytes_of(_)
bytes_of(chars) ==
  IF chars = << >> THEN << >> ELSE Head(chars) \o bytes_of(Tail(chars))

InitPattern ==
  /\ trackerInit /\ eqIdle /\ ocrIdle /\ cardIdle /\ npsIdle /\ judgeIdle
  /\ handIdle /\ reactIdle
  /\ pattern_input \in Lists(PatternChars, MaxPatternChars)
  /\ pattern_string = bytes_of(pattern_input)
  /\ pattern_rows = << >>
  /\ pattern_at = "loop"

NextPattern ==
  \/ parse_pattern_bracket
  \/ parse_pattern_char
  \/ parse_pattern_return

\* the loop is sequential code of one call: it takes its next iteration as
\* long as it has one
SpecPattern == InitPattern /\ [][NextPattern]_vars /\ WF_vars(NextPattern)

\* a character that stands for a lane: one of the digits 1 to 9
IsLaneChar(c) == \E d \in 1..9 : c = << 48 + d >>

\* the lanes of the lane characters of a list of characters, in their order
LanesOf(chars) ==
  LET digits == SelectSeq(chars, IsLaneChar)
  IN  [ k \in 1..Len(digits) |-> digits[k][1] - 49 ]

\* what a pattern string stands for, read character by character: a row per
\* bracket group and per lane character outside of the groups, or no pattern
\* when a `[` is followed by no `]`
RECURSIVE Parsed(_, _)
Parsed(chars, rows) ==
  IF chars = << >> THEN [ ok |-> TRUE, rows |-> rows ]
  ELSE IF Head(chars) = << 91 >>
  THEN IF \A i \in 1..Len(chars) : chars[i] # << 93 >>
       THEN [ ok |-> FALSE, rows |-> << >> ]
       ELSE LET close == CHOOSE i \in 1..Len(chars) :
                           chars[i] = << 93 >> /\ \A j \in 1..(i - 1) : chars[j] # << 93 >>
            IN  Parsed(SubSeq(chars, close + 1, Len(chars)),
                       Append(rows, LanesOf(SubSeq(chars, 2, close - 1))))
  ELSE Parsed(Tail(chars),
              IF IsLaneChar(Head(chars)) THEN Append(rows, LanesOf(<< Head(chars) >>))
              ELSE rows)

\* C30: parse_pattern returns for every string; every iteration that goes on
\* leaves fewer bytes than it found, and no slice panics; it returns the error
\* exactly for the strings with a `[` that no `]` follows; the rows it returns
\* are those of the bracket groups and of the digits 1 to 9 outside of them,
\* every lane within 0..8
C30_ParsePatternTerminates ==
  /\ <>(pattern_at \in { "Ok", "Err" })
  /\ [][ pattern_at' = "loop" => Len(pattern_string') < Len(pattern_string) ]_vars
  /\ [](pattern_at # "panic")
  /\ [](pattern_at = "Err" => ~ Parsed(pattern_input, << >>).ok)
  /\ [](pattern_at = "Ok" =>
          /\ Parsed(pattern_input, << >>).ok
          /\ pattern_rows = Parsed(pattern_input, << >>).rows
          /\ \A i \in 1..Len(pattern_rows) : \A k \in 1..Len(pattern_rows[i]) :
               pattern_rows[i][k] \in 0..8)

\* parse_pattern returned a row of lane 8 for a string that has a character
\* of several bytes
C30_Witness ==
  /\ pattern_at = "Ok"
  /\ \E i \in 1..Len(pattern_input) : Len(pattern_input[i]) > 1
  /\ \E i \in 1..Len(pattern_rows) : pattern_rows[i] = << 8 >>
====
